---- MODULE Spec2Model ----
(***************************************************************************)
(* The RAG levels: Reciprocal Rank Fusion and the BM25 keyword index, the  *)
(* fixed, recursive, contextual and semantic chunkers, the embedding       *)
(* caches, the Qdrant vector store and the filtered search over it, the    *)
(* hierarchical summarizer, the agent loop, the initialization of the      *)
(* search tools and the vector retriever with its cache.                   *)
(*                                                                         *)
(* Each component has its own variables, initial predicate and next-state  *)
(* relation; a component's specification (SpecRRF, SpecBM25, ...) leaves   *)
(* the other components' variables at their idle values.                   *)
(***************************************************************************)
EXTENDS Integers, Sequences, FiniteSets, TLC

VARIABLES
    \* ---- rank fusion (shared/retrieval/bm25.py, 02-hybrid-search) ----
    vector_results,   \* ranked list [(doc_id, raw score)] from vector search
    bm25_results,     \* ranked list [(doc_id, raw score)] from BM25 search
    alpha,            \* weight numerator: the float alpha is alpha / AlphaDen
    rrf_k,            \* the RRF constant k passed to reciprocal_rank_fusion
    hyb_k,            \* the k (top-k) argument of HybridRetriever.search
    fused,            \* return value of reciprocal_rank_fusion(v, b, alpha, k)
    fusedSwapped,     \* return value of reciprocal_rank_fusion(b, v, 1 - alpha, k)
    hybridFused,      \* HybridRetriever.search: sorted_results before [:k]
    hybridOut,        \* HybridRetriever.search: return value
    rrfDone,          \* which of the fusion calls have returned
    \* ---- BM25 index (BM25Search, BM25Retriever) ----
    bs,               \* the BM25Search instance
    br,               \* the BM25Retriever instance
    bmCall,           \* the last call made on either instance and its outcome
    \* ---- fixed-size chunking (FixedChunker, ContextualChunker) ----
    chunker,          \* the chunker instance: class, chunk_size, chunk_overlap
    ck_text,          \* chunk(text, doc_id): the text being chunked
    tokens,           \* chunk(): tokens = self.tokenizer.encode(text)
    chunks,           \* chunk(): the list of chunks built so far
    start,            \* chunk(): the window start
    ck_pc,            \* chunk(): "idle", "loop" (at the while test), "enrich"
                      \* (at the for of ContextualChunker.chunk) or "done"
    enriched_chunks,  \* ContextualChunker.chunk(): the enriched chunks so far
    completions,      \* the chat.completions.create calls issued, in order
    \* ---- recursive chunking (RecursiveChunker) ----
    rc,               \* the RecursiveChunker instance: chunk_size, chunk_overlap
    rc_text,          \* chunk(text, doc_id): the text being chunked
    splits,           \* chunk(): splits = self._recursive_split(text, ...)
    rc_i,             \* chunk(): 1-based position of the for loop in splits
    current_chunk,    \* chunk(): segments of the chunk being packed
    current_tokens,   \* chunk(): token count kept for current_chunk
    rc_chunks,        \* chunk(): the list of chunks built so far
    rc_parts,         \* history: current_chunk as it was when chunk i was appended
    rc_carried,       \* history: overlap_text computed when chunk i was closed
    rc_pc,            \* chunk(): "idle", "loop" (at the for) or "done"
    \* ---- embedding caches (ChunkEvaluator, EmbeddingManager) ----
    ec,               \* the instance: class, cache_dir given, the cache dict
    ec_file,          \* the instance's cache file on disk
    embed_calls,      \* the lists of texts sent to client.embeddings.create
    ec_requests,      \* requests made on the instance
    ecCall,           \* the last call made on the instance and its outcome
    \* ---- corpus-level cache (EmbeddingCache) ----
    dc_file,          \* embedding_cache.json on disk
    dc_marked,        \* history: the documents last marked, per collection
    dcCall,           \* the last call made on the cache and its outcome
    \* ---- vector store (QdrantVectorStore) ----
    collections,      \* the collections of the Qdrant server, by name
    vsCall,           \* the last call made on the store and its outcome
    vs_ops,           \* calls made on the store
    \* ---- semantic search tool (search_documents) ----
    sq_documents,     \* the ids of the documents indexed by initialize()
    similarity,       \* the engine's score of each document for the query
    sqCall,           \* the last call of the tool
    response,         \* the response of the last call
    \* ---- hierarchical summarizer (HierarchicalSummarizer) ----
    sm,                \* the summarizer: batch_size and max_concurrent
    sm_documents,      \* the number of documents handed to process_documents
    semaphore,         \* the value of self.semaphore
    sm_pc,             \* where process_documents is
    gather_level,      \* the level of the gather being awaited
    level,             \* the level variable of process_documents
    current_summaries, \* current_summaries
    tasks,             \* the coroutines created so far: kind, level, number
    files,             \* the files written to output_dir
    sm_raised,         \* the exception process_documents ended with
    \* ---- semantic chunker (SemanticChunker) ----
    sem_chunker,       \* the semantic chunker: chunk_size and chunk_overlap
    sc_text,           \* the text handed to chunk()
    sc_chunks,         \* the chunks chunk() returned
    sc_pc,             \* idle, or done when chunk() has returned
    \* ---- agent loop ----
    messages,          \* the conversation history shared by run_conversation and run_agent_loop
    collected_content, \* content collected from the stream
    collected_tool_calls, \* the tool calls accumulated from the stream
    finish_reason,     \* last finish_reason of the stream
    consumed,          \* tool-call deltas read from the current stream
    tc_index,          \* position of the loop over collected_tool_calls
    al_pc,             \* position in run_conversation and run_agent_loop
    al_deltas,         \* tool-call deltas streamed since the user turn
    \* ---- shared search state ----
    search_state,      \* the globals _initialized and _documents of the search tools
    rag_docs,          \* the collection agentic_rag_docs on the server
    docs_on_disk,      \* documents load_documents finds
    inCall,            \* the last initialize() call and the number of calls
    \* ---- vector retriever with cache ----
    vr_file,           \* the cache file embedding_cache.json
    vr_coll,           \* the collection of the retriever on the server
    vr_calls,          \* index() calls made
    vrCall,            \* the last index() call
    vrPrev             \* the index() call before it

rrfVars == <<vector_results, bm25_results, alpha, rrf_k, hyb_k,
             fused, fusedSwapped, hybridFused, hybridOut, rrfDone>>
bmVars == <<bs, br, bmCall>>
ckVars == <<chunker, ck_text, tokens, chunks, start, ck_pc,
            enriched_chunks, completions>>
rcVars == <<rc, rc_text, splits, rc_i, current_chunk, current_tokens,
            rc_chunks, rc_parts, rc_carried, rc_pc>>
ecVars == <<ec, ec_file, embed_calls, ec_requests, ecCall>>
dcVars == <<dc_file, dc_marked, dcCall>>
vsVars == <<collections, vsCall, vs_ops>>
sqVars == <<sq_documents, similarity, sqCall, response>>
smVars ==
    <<sm, sm_documents, semaphore, sm_pc, gather_level, level,
      current_summaries, tasks, files, sm_raised>>
scVars ==
    <<sem_chunker, sc_text, sc_chunks, sc_pc>>
alVars ==
    <<messages, collected_content, collected_tool_calls, finish_reason,
      consumed, tc_index, al_pc, al_deltas>>
inVars ==
    <<search_state, rag_docs, docs_on_disk, inCall>>
vrVars ==
    <<vr_file, vr_coll, vr_calls, vrCall, vrPrev>>
vars ==
    <<rrfVars, bmVars, ckVars, rcVars, ecVars, dcVars, vsVars, sqVars,
      smVars, scVars, alVars, inVars, vrVars>>

\* what the actions of one component leave unchanged
otherThanRRF ==
    <<bmVars, ckVars, rcVars, ecVars, dcVars, vsVars, sqVars, smVars,
      scVars, alVars, inVars, vrVars>>
otherThanBM ==
    <<rrfVars, ckVars, rcVars, ecVars, dcVars, vsVars, sqVars, smVars,
      scVars, alVars, inVars, vrVars>>
otherThanCK ==
    <<rrfVars, bmVars, rcVars, ecVars, dcVars, vsVars, sqVars, smVars,
      scVars, alVars, inVars, vrVars>>
otherThanRC ==
    <<rrfVars, bmVars, ckVars, ecVars, dcVars, vsVars, sqVars, smVars,
      scVars, alVars, inVars, vrVars>>
otherThanEC ==
    <<rrfVars, bmVars, ckVars, rcVars, dcVars, vsVars, sqVars, smVars,
      scVars, alVars, inVars, vrVars>>
otherThanDC ==
    <<rrfVars, bmVars, ckVars, rcVars, ecVars, vsVars, sqVars, smVars,
      scVars, alVars, inVars, vrVars>>
otherThanVS ==
    <<rrfVars, bmVars, ckVars, rcVars, ecVars, dcVars, sqVars, smVars,
      scVars, alVars, inVars, vrVars>>
otherThanSQ ==
    <<rrfVars, bmVars, ckVars, rcVars, ecVars, dcVars, vsVars, smVars,
      scVars, alVars, inVars, vrVars>>
otherThanSM ==
    <<rrfVars, bmVars, ckVars, rcVars, ecVars, dcVars, vsVars, sqVars,
      scVars, alVars, inVars, vrVars>>
otherThanSC ==
    <<rrfVars, bmVars, ckVars, rcVars, ecVars, dcVars, vsVars, sqVars,
      smVars, alVars, inVars, vrVars>>
otherThanAL ==
    <<rrfVars, bmVars, ckVars, rcVars, ecVars, dcVars, vsVars, sqVars,
      smVars, scVars, inVars, vrVars>>
otherThanIN ==
    <<rrfVars, bmVars, ckVars, rcVars, ecVars, dcVars, vsVars, sqVars,
      smVars, scVars, alVars, vrVars>>
otherThanVR ==
    <<rrfVars, bmVars, ckVars, rcVars, ecVars, dcVars, vsVars, sqVars,
      smVars, scVars, alVars, inVars>>

(***************************************************************************)
(* Bounds                                                                  *)
(***************************************************************************)
MaxLen == 2        \* longest ranked list handed to the fusion
AlphaDen == 4      \* alpha ranges over 0/AlphaDen .. AlphaDen/AlphaDen

DefaultK == 60     \* reciprocal_rank_fusion(..., k: int = 60)
RRF_K == 60        \* 02-hybrid-search/utils/config.py

Ids == {"x", "y", "z"}    \* the document ids the ranked lists are made of
KValues == {1, DefaultK}

(***************************************************************************)
(* Generic sequence helpers                                                *)
(***************************************************************************)
Range(s) == {s[i] : i \in DOMAIN s}

\* s[:n] for n >= 0
Take(s, n) == SubSeq(s, 1, IF n < Len(s) THEN n ELSE Len(s))

\* the ids of a list of (id, score) pairs, in list order
IdsOf(s) == [i \in DOMAIN s |-> s[i][1]]

NoDupIds(s) == \A i, j \in DOMAIN s : s[i][1] = s[j][1] => i = j

\* all duplicate-free ranked lists of length n over Ids.  The raw scores a
\* list carries either fall with the rank (n, n-1, .., 1) or rise with it
\* (1, 2, .., n): a fusion that read them would order the two differently.
RankedListsOfLen(n) ==
    {[i \in 1..n |-> <<f[i], IF rising THEN i ELSE n + 1 - i>>] :
        f \in {g \in [1..n -> Ids] : \A i, j \in 1..n : g[i] = g[j] => i = j},
        rising \in BOOLEAN}

RankedLists == UNION {RankedListsOfLen(n) : n \in 0..MaxLen}

(***************************************************************************)
(* Exact arithmetic for the fused scores.  alpha / (k + rank) is a         *)
(* rational; all scores of one fusion run are kept as integers over the    *)
(* common denominator AlphaDen * RankDen(k), where RankDen(k) is the       *)
(* product of (k + r) over every rank r a list can have.                   *)
(***************************************************************************)
RECURSIVE ProdTo(_, _)
ProdTo(kk, r) == IF r = 0 THEN 1 ELSE (kk + r) * ProdTo(kk, r - 1)

RankDen(kk) == ProdTo(kk, MaxLen)

\* the same term with ranks counted from 0 (enumerate without start=1)
RRFTermStartAtZero(w, kk, rank) == (w * RankDen(kk)) \div (kk + rank - 1)
\* rrf_score = weight / (k + rank)
RRFTerm(w, kk, rank) == (w * RankDen(kk)) \div (kk + rank)

\* the BM25 list weighted by alpha itself
OneMinusSame(a) == a
\* 1 - alpha
OneMinus(a) == AlphaDen - a

(***************************************************************************)
(* fused_scores: a Python dict, i.e. (key, value) pairs in insertion order *)
(***************************************************************************)
DictHas(d, id) == \E i \in DOMAIN d : d[i][1] = id

\* fused_scores.get(doc_id, 0.0)
DictGet(d, id) ==
    IF DictHas(d, id) THEN d[CHOOSE i \in DOMAIN d : d[i][1] = id][2] ELSE 0

\* fused_scores[doc_id] = fused_scores.get(doc_id, 0.0) + rrf_score
DictAdd(d, id, s) ==
    IF DictHas(d, id)
    THEN [i \in DOMAIN d |-> IF d[i][1] = id THEN <<id, d[i][2] + s>> ELSE d[i]]
    ELSE Append(d, <<id, s>>)

\* for rank, (doc_id, _) in enumerate(results, start=1): ... += w / (k + rank)
RECURSIVE AddRanks(_, _, _, _, _)
AddRanks(d, results, w, kk, rank) ==
    IF rank > Len(results) THEN d
    ELSE AddRanks(DictAdd(d, results[rank][1], RRFTerm(w, kk, rank)),
                  results, w, kk, rank + 1)

\* sorted(items, key=lambda x: x[1], reverse=True): stable, descending.
\* InsertDesc puts x after every element whose score is >= x's score.
RECURSIVE InsertDesc(_, _)
InsertDesc(s, x) ==
    IF s = <<>> THEN <<x>>
    ELSE IF s[1][2] >= x[2] THEN <<s[1]>> \o InsertDesc(Tail(s), x)
    ELSE <<x>> \o s

RECURSIVE SortedDescFrom(_, _, _)
SortedDescFrom(acc, s, i) ==
    IF i > Len(s) THEN acc ELSE SortedDescFrom(InsertDesc(acc, s[i]), s, i + 1)

SortedDesc(s) == SortedDescFrom(<<>>, s, 1)

\* HybridRetriever._reciprocal_rank_fusion: the dict of fused scores
hybrid_reciprocal_rank_fusion(v, b, a) ==
    AddRanks(AddRanks(<<>>, v, a, RRF_K, 1), b, OneMinus(a), RRF_K, 1)

\* shared.retrieval.bm25.reciprocal_rank_fusion
reciprocal_rank_fusion(v, b, a, kk) ==
    SortedDesc(AddRanks(AddRanks(<<>>, v, a, kk, 1), b, OneMinus(a), kk, 1))

(***************************************************************************)
(* Rank fusion: state machine                                              *)
(***************************************************************************)
InitRRF ==
    /\ vector_results \in RankedLists
    /\ bm25_results \in RankedLists
    /\ alpha \in 0..AlphaDen
    /\ rrf_k \in KValues
    /\ hyb_k = 0
    /\ fused = <<>>
    /\ fusedSwapped = <<>>
    /\ hybridFused = <<>>
    /\ hybridOut = <<>>
    /\ rrfDone = {}

\* fused = reciprocal_rank_fusion(vector_results, bm25_results, alpha, k)
CallRRF ==
    /\ "rrf" \notin rrfDone
    /\ fused' = reciprocal_rank_fusion(vector_results, bm25_results, alpha, rrf_k)
    /\ rrfDone' = rrfDone \cup {"rrf"}
    /\ UNCHANGED <<vector_results, bm25_results, alpha, rrf_k, hyb_k,
                   fusedSwapped, hybridFused, hybridOut>>
    /\ UNCHANGED otherThanRRF

\* the same call with the two lists exchanged and alpha replaced by 1 - alpha
CallRRFSwapped ==
    /\ "swapped" \notin rrfDone
    /\ fusedSwapped' = reciprocal_rank_fusion(bm25_results, vector_results,
                                              AlphaDen - alpha, rrf_k)
    /\ rrfDone' = rrfDone \cup {"swapped"}
    /\ UNCHANGED <<vector_results, bm25_results, alpha, rrf_k, hyb_k,
                   fused, hybridFused, hybridOut>>
    /\ UNCHANGED otherThanRRF

\* HybridRetriever.search(query, k, alpha): both retrievers are asked for
\* k * 2 results, the fused dict is sorted and cut to k.
HybridSearch ==
    /\ "hybrid" \notin rrfDone
    /\ \E top \in 0..MaxLen :
         LET v == Take(vector_results, top * 2)
             b == Take(bm25_results, top * 2)
             sorted_results == SortedDesc(hybrid_reciprocal_rank_fusion(v, b, alpha))
         IN /\ hyb_k' = top
            /\ hybridFused' = sorted_results
            /\ hybridOut' = Take(sorted_results, top)
    /\ rrfDone' = rrfDone \cup {"hybrid"}
    /\ UNCHANGED <<vector_results, bm25_results, alpha, rrf_k, fused, fusedSwapped>>
    /\ UNCHANGED otherThanRRF

NextRRF == CallRRF \/ CallRRFSwapped \/ HybridSearch

(***************************************************************************)
(* BM25 index: documents, tokenisation and the rank_bm25 library           *)
(***************************************************************************)
MaxDocs == 2       \* longest document list handed to a BM25 instance
MaxTopK == 3       \* largest top_k / k passed to search

\* The corpus the document lists are drawn from.  A content is written as
\* the sequence of words that str.split() yields; words keep their case.
DocIds == {"a", "b", "c"}
ContentOf(id) ==
    CASE id = "a" -> <<"the", "Cat">>
      [] id = "b" -> <<"The", "dog">>
      [] id = "c" -> <<>>
Doc(id) == [id |-> id, content |-> ContentOf(id)]

DocListsOfLen(n) ==
    {[i \in 1..n |-> Doc(f[i])] :
        f \in {g \in [1..n -> DocIds] : \A i, j \in 1..n : g[i] = g[j] => i = j}}
DocLists == UNION {DocListsOfLen(n) : n \in 0..MaxDocs}

\* queries, as the word sequences split() yields ("" splits to no word)
Queries == {<<>>, <<"cat">>, <<"THE">>, <<"the", "dog">>, <<"bird">>}

\* str.lower() on one word
Lower(w) ==
    CASE w = "Cat" -> "cat"
      [] w = "The" -> "the"
      [] w = "THE" -> "the"
      [] OTHER -> w

\* text.lower().split()
Tokenize(words) == [i \in DOMAIN words |-> Lower(words[i])]

\* [doc["content"].lower().split() for doc in documents]
TokenizeDocs(documents) ==
    [i \in DOMAIN documents |-> Tokenize(documents[i].content)]

\* BM25Okapi(corpus) divides by the corpus size and by the vocabulary size:
\* it raises ZeroDivisionError on a corpus without documents or without words.
BM25OkapiFails(corpus) ==
    \/ Len(corpus) = 0
    \/ \A i \in DOMAIN corpus : Len(corpus[i]) = 0

\* the BM25Okapi object: the tokenised corpus it was built from
BM25Okapi(corpus) == [isNone |-> FALSE, corpus |-> corpus]
\* self.bm25 = None
NoBM25 == [isNone |-> TRUE, corpus |-> <<>>]

\* BM25Okapi.get_scores(query): one real score per corpus document.  The
\* value of a score is the library's business; what is kept of it is that a
\* document sharing no token with the query scores 0 (so every score is 0
\* for a query without tokens) and that a score may be negative.
ScoreVals == {-1, 0, 1}
GetScores(bm25, tokenized_query) ==
    {sc \in [DOMAIN bm25.corpus -> ScoreVals] :
        \A i \in DOMAIN bm25.corpus :
            (Range(bm25.corpus[i]) \cap Range(tokenized_query) = {}) => sc[i] = 0}

\* np.argsort(scores): a permutation that sorts the scores ascending.  The
\* default kind is not a stable sort, so equal scores come in any order.
Perms(n) == {p \in [1..n -> 1..n] : \A i, j \in 1..n : p[i] = p[j] => i = j}
ArgSort(scores) ==
    {p \in Perms(Len(scores)) :
        \A i \in 1..(Len(scores) - 1) : scores[p[i]] <= scores[p[i + 1]]}

\* s[::-1]
Reverse(s) == [i \in DOMAIN s |-> s[Len(s) + 1 - i]]

\* np.argsort(scores)[::-1][:top_k], for every order argsort may produce
TopIndices(scores, top_k) == {Take(Reverse(p), top_k) : p \in ArgSort(scores)}

\* BM25Search.search: results for idx in top_indices if idx < len(documents)
BSResults(documents, scores, top_indices) ==
    LET kept == SelectSeq(top_indices, LAMBDA idx : idx <= Len(documents))
    IN [i \in DOMAIN kept |-> <<documents[kept[i]].id, scores[kept[i]]>>]

\* BM25Retriever.search: results for every idx in top_indices
BRResults(documents, scores, top_indices) ==
    [i \in DOMAIN top_indices |->
        <<documents[top_indices[i]].id, scores[top_indices[i]]>>]

\* a search that does not test the index
BSNotIndexedNever(b) == FALSE
\* the guards of the two search methods
BSNotIndexed(b) == ~b.indexed \/ b.bm25.isNone
BRNotIndexed(b) == b.bm25.isNone

(***************************************************************************)
(* BM25 index: state machine                                               *)
(***************************************************************************)
\* BM25Search.__init__(documents): self.documents = documents or []
BSNew(documents) ==
    [live |-> TRUE,
     documents |-> documents, bm25 |-> NoBM25, tokenized_docs |-> <<>>,
     indexed |-> FALSE,
     built |-> FALSE, builtFrom |-> <<>>]   \* history: last successful index()

\* BM25Retriever.__init__(documents)
BRNew(documents) ==
    [live |-> TRUE,
     documents |-> documents, bm25 |-> NoBM25,
     built |-> FALSE, builtFrom |-> <<>>]   \* history: last successful index()

\* an instance that was not constructed in this run
BSAbsent == [BSNew(<<>>) EXCEPT !.live = FALSE]
BRAbsent == [BRNew(<<>>) EXCEPT !.live = FALSE]

NoCall == [obj |-> "none", op |-> "none", outcome |-> "none", arg |-> <<>>,
           query |-> <<>>, top_k |-> 0, scores |-> <<>>, ret |-> <<>>]

Call(obj, op, outcome) == [NoCall EXCEPT !.obj = obj, !.op = op, !.outcome = outcome]

\* one instance is constructed: a BM25Search or a BM25Retriever
InitBM ==
    /\ \/ bs \in {BSNew(d) : d \in DocLists} /\ br = BRAbsent
       \/ bs = BSAbsent /\ br \in {BRNew(d) : d \in DocLists}
    /\ bmCall = NoCall

\* BM25Search.index(documents): documents is None (use the constructor's
\* list) or a list.  Each raise leaves what was assigned before it.
BSIndex(documents, isNone) ==
    LET docs1 == IF isNone THEN bs.documents ELSE documents
        s1 == [bs EXCEPT !.documents = docs1]
        tok == TokenizeDocs(docs1)
        s2 == [s1 EXCEPT !.tokenized_docs = tok]
    IN IF Len(docs1) = 0
       THEN /\ bs' = s1
            /\ bmCall' = [Call("BM25Search", "index", "ValueError")
                             EXCEPT !.arg = docs1]
       ELSE IF BM25OkapiFails(tok)
       THEN /\ bs' = s2
            /\ bmCall' = [Call("BM25Search", "index", "ZeroDivisionError")
                             EXCEPT !.arg = docs1]
       ELSE /\ bs' = [s2 EXCEPT !.bm25 = BM25Okapi(tok), !.indexed = TRUE,
                                !.built = TRUE, !.builtFrom = docs1]
            /\ bmCall' = [Call("BM25Search", "index", "ok") EXCEPT !.arg = docs1]

BSIndexCall ==
    /\ bs.live
    /\ \/ BSIndex(<<>>, TRUE)
       \/ \E d \in DocLists : BSIndex(d, FALSE)
    /\ UNCHANGED <<br, otherThanBM>>

\* BM25Search.search(query, top_k)
BSSearch(query, top_k) ==
    /\ bs.live
    /\ IF BSNotIndexed(bs)
       THEN bmCall' = [Call("BM25Search", "search", "ValueError")
                          EXCEPT !.query = query, !.top_k = top_k]
       ELSE IF bs.bm25.isNone
       THEN bmCall' = [Call("BM25Search", "search", "AttributeError")
                          EXCEPT !.query = query, !.top_k = top_k]
       ELSE \E scores \in GetScores(bs.bm25, Tokenize(query)) :
            \E top_indices \in TopIndices(scores, top_k) :
               bmCall' = [Call("BM25Search", "search", "ok")
                          EXCEPT !.query = query, !.top_k = top_k,
                                 !.scores = scores,
                                 !.ret = BSResults(bs.documents, scores, top_indices)]
    /\ UNCHANGED <<bs, br, otherThanBM>>

BSSearchCall == \E q \in Queries, top_k \in 0..MaxTopK : BSSearch(q, top_k)

\* BM25Retriever.index()
BRIndexCall ==
    /\ br.live
    /\ LET tok == TokenizeDocs(br.documents)
       IN IF BM25OkapiFails(tok)
          THEN /\ br' = br
               /\ bmCall' = [Call("BM25Retriever", "index", "ZeroDivisionError")
                                EXCEPT !.arg = br.documents]
          ELSE /\ br' = [br EXCEPT !.bm25 = BM25Okapi(tok),
                                   !.built = TRUE, !.builtFrom = br.documents]
               /\ bmCall' = [Call("BM25Retriever", "index", "ok")
                                EXCEPT !.arg = br.documents]
    /\ UNCHANGED <<bs, otherThanBM>>

\* BM25Retriever.search(query, k)
BRSearch(query, top_k) ==
    /\ br.live
    /\ IF BRNotIndexed(br)
       THEN bmCall' = [Call("BM25Retriever", "search", "ValueError")
                          EXCEPT !.query = query, !.top_k = top_k]
       ELSE \E scores \in GetScores(br.bm25, Tokenize(query)) :
            \E top_indices \in TopIndices(scores, top_k) :
               bmCall' = [Call("BM25Retriever", "search", "ok")
                          EXCEPT !.query = query, !.top_k = top_k,
                                 !.scores = scores,
                                 !.ret = BRResults(br.documents, scores, top_indices)]
    /\ UNCHANGED <<bs, br, otherThanBM>>

BRSearchCall == \E q \in Queries, top_k \in 0..MaxTopK : BRSearch(q, top_k)

NextBM == BSIndexCall \/ BSSearchCall \/ BRIndexCall \/ BRSearchCall

IdleBM == bs = BSAbsent /\ br = BRAbsent /\ bmCall = NoCall

IdleRRF ==
    /\ vector_results = <<>> /\ bm25_results = <<>> /\ alpha = 0
    /\ rrf_k = DefaultK /\ hyb_k = 0
    /\ fused = <<>> /\ fusedSwapped = <<>>
    /\ hybridFused = <<>> /\ hybridOut = <<>> /\ rrfDone = {}

(***************************************************************************)
(* Fixed-size chunking: tokenizer and window arithmetic                    *)
(***************************************************************************)
MaxTextLen == 7    \* longest text, in characters
MaxChunkSize == 3  \* largest chunk_size handed to a constructor

\* chunks after which a run is no longer followed: a run that terminates
\* makes at most one chunk per token
MaxChunks == MaxTextLen + 2
MaxCtxTextLen == 4 \* longest text handed to ContextualChunker.chunk

\* Texts are character sequences over a two-letter alphabet.
Chars == {"a", "b"}
Texts == UNION {[1..n -> Chars] : n \in 0..MaxTextLen}
CtxTexts == UNION {[1..n -> Chars] : n \in 0..MaxCtxTextLen}

\* The tokenizer is a byte-pair encoding with one merge: its tokens are
\* "t_a" for "a", "t_b" for "b" and "t_ab" for the pair "ab"; every other
\* character is a token of its own, written as the character.

\* self.tokenizer.encode(text): merge every "ab" pair, left to right
RECURSIVE Encode(_)
Encode(text) ==
    IF text = <<>> THEN <<>>
    ELSE IF Len(text) >= 2 /\ text[1] = "a" /\ text[2] = "b"
         THEN <<"t_ab">> \o Encode(SubSeq(text, 3, Len(text)))
    ELSE IF text[1] = "a" THEN <<"t_a">> \o Encode(Tail(text))
    ELSE IF text[1] = "b" THEN <<"t_b">> \o Encode(Tail(text))
    ELSE <<text[1]>> \o Encode(Tail(text))

\* self.tokenizer.decode(tokens)
RECURSIVE Decode(_)
Decode(toks) ==
    IF toks = <<>> THEN <<>>
    ELSE (CASE toks[1] = "t_a" -> <<"a">>
            [] toks[1] = "t_b" -> <<"b">>
            [] toks[1] = "t_ab" -> <<"a", "b">>
            [] OTHER -> <<toks[1]>>) \o Decode(Tail(toks))

\* Python slice s[lo:hi] with 0-based bounds; a negative bound counts from
\* the end, and both bounds are clamped into 0..len(s)
SliceBound(i, n) ==
    IF i < 0 THEN (IF i + n < 0 THEN 0 ELSE i + n)
    ELSE (IF i > n THEN n ELSE i)
PySlice(s, lo, hi) == SubSeq(s, SliceBound(lo, Len(s)) + 1, SliceBound(hi, Len(s)))

\* end = min(start + self.chunk_size, len(tokens))
WindowEnd(st, chunk_size, n) ==
    IF st + chunk_size < n THEN st + chunk_size ELSE n

\* a window that advances by chunk_size, forgetting the overlap
NextStartNoOverlap(st, chunk_size, chunk_overlap) == st + chunk_size
\* start = start + self.chunk_size - self.chunk_overlap
NextStart(st, chunk_size, chunk_overlap) == st + chunk_size - chunk_overlap

DocId == "doc"

\* the dict FixedChunker.chunk appends
FixedChunkRecord(n, st, end, chunk_tokens, chunk_overlap) ==
    [text |-> Decode(chunk_tokens),
     doc_id |-> DocId,
     chunk_id |-> <<DocId, "_chunk_", n>>,
     start_token |-> st,
     end_token |-> end,
     num_tokens |-> Len(chunk_tokens),
     method |-> "fixed",
     overlap_tokens |-> IF st > 0 THEN chunk_overlap ELSE 0]

\* a base chunk that records the overlap for the first chunk too
BaseChunkRecordAlwaysOverlap(n, st, end, chunk_tokens, chunk_overlap) ==
    [text |-> Decode(chunk_tokens),
     doc_id |-> DocId,
     start_token |-> st,
     end_token |-> end,
     num_tokens |-> Len(chunk_tokens),
     overlap_tokens |-> chunk_overlap]
\* the dict ContextualChunker._create_base_chunks appends
BaseChunkRecord(n, st, end, chunk_tokens, chunk_overlap) ==
    [text |-> Decode(chunk_tokens),
     doc_id |-> DocId,
     start_token |-> st,
     end_token |-> end,
     num_tokens |-> Len(chunk_tokens),
     overlap_tokens |-> IF st > 0 THEN chunk_overlap ELSE 0]

\* What self.client.chat.completions.create does for one call: it raises,
\* or it returns a response whose message content is None or a string.
CompletionOutcomes ==
    {[kind |-> "raise", content |-> <<>>],
     [kind |-> "none", content |-> <<>>],
     [kind |-> "text", content |-> <<" ", "c", "\n">>],
     [kind |-> "text", content |-> <<"d">>]}

Whitespace == {" ", "\n"}
RECURSIVE LStrip(_)
LStrip(str) ==
    IF str # <<>> /\ Head(str) \in Whitespace THEN LStrip(Tail(str)) ELSE str
RECURSIVE RStrip(_)
RStrip(str) ==
    IF str # <<>> /\ str[Len(str)] \in Whitespace
    THEN RStrip(SubSeq(str, 1, Len(str) - 1)) ELSE str
\* str.strip()
Strip(str) == RStrip(LStrip(str))

\* the context returned by the except branch of _generate_context
FallbackContext == <<"This chunk is from the document.">>

\* a _generate_context whose except branch returns an empty context
GenerateContextNoFallback(outcome) ==
    IF outcome.kind = "text" THEN Strip(outcome.content) ELSE <<>>
\* ContextualChunker._generate_context, given what the completion call
\* did: content.strip() of a returned string; a raise of create(), and the
\* AttributeError of None.strip(), end in the except branch
GenerateContext(outcome) ==
    IF outcome.kind = "text" THEN Strip(outcome.content) ELSE FallbackContext

\* the dict ContextualChunker.chunk appends for base chunk number i (0-based)
EnrichedChunkRecord(i, chunk, context) ==
    LET enriched_text == context \o <<"\n", "\n">> \o chunk.text
    IN [text |-> enriched_text,
        original_text |-> chunk.text,
        context |-> context,
        doc_id |-> DocId,
        chunk_id |-> <<DocId, "_chunk_", i>>,
        start_token |-> chunk.start_token,
        end_token |-> chunk.end_token,
        num_tokens |-> Len(Encode(enriched_text)),
        num_tokens_original |-> chunk.num_tokens,
        num_tokens_context |-> Len(Encode(context)),
        method |-> "contextual",
        overlap_tokens |-> chunk.overlap_tokens]

\* FixedChunker.__init__ / ContextualChunker.__init__ store the two numbers
\* as given; FixedChunker only prints a warning for a large overlap.
NewChunker(cls, chunk_size, chunk_overlap) ==
    [cls |-> cls, chunk_size |-> chunk_size, chunk_overlap |-> chunk_overlap]

NoChunker == NewChunker("none", 0, 0)

ChunkerClasses == {"FixedChunker", "ContextualChunker"}

(***************************************************************************)
(* Fixed-size chunking: state machine                                      *)
(***************************************************************************)
InitCK ==
    /\ chunker = NoChunker
    /\ ck_text = <<>>
    /\ tokens = <<>>
    /\ chunks = <<>>
    /\ start = 0
    /\ ck_pc = "idle"
    /\ enriched_chunks = <<>>
    /\ completions = <<>>

\* FixedChunker(chunk_size, chunk_overlap) / ContextualChunker(...)
Construct ==
    /\ chunker = NoChunker
    /\ \E cls \in ChunkerClasses, chunk_size \in 1..MaxChunkSize,
          chunk_overlap \in (-1)..(MaxChunkSize + 1) :
          chunker' = NewChunker(cls, chunk_size, chunk_overlap)
    /\ UNCHANGED <<ck_text, tokens, chunks, start, ck_pc,
                   enriched_chunks, completions>>
    /\ UNCHANGED otherThanCK

\* chunk(text, doc_id) up to the while loop
ChunkBegin ==
    /\ chunker # NoChunker
    /\ ck_pc = "idle"
    /\ \E text \in (IF chunker.cls = "ContextualChunker" THEN CtxTexts ELSE Texts) :
          /\ ck_text' = text
          /\ tokens' = Encode(text)
    /\ chunks' = <<>>
    /\ start' = 0
    /\ ck_pc' = "loop"
    /\ enriched_chunks' = <<>>
    /\ completions' = <<>>
    /\ UNCHANGED chunker
    /\ UNCHANGED otherThanCK

\* where chunk() continues when the while loop is left: FixedChunker
\* returns, ContextualChunker goes on to enrich the base chunks
AfterLoop == IF chunker.cls = "ContextualChunker" THEN "enrich" ELSE "done"

\* one pass of "while start < len(tokens)": the test, the body and the break
ChunkLoop ==
    /\ ck_pc = "loop"
    /\ Len(chunks) < MaxChunks
    /\ IF start < Len(tokens)
       THEN LET end == WindowEnd(start, chunker.chunk_size, Len(tokens))
                chunk_tokens == PySlice(tokens, start, end)
                rec == IF chunker.cls = "FixedChunker"
                       THEN FixedChunkRecord(Len(chunks), start, end,
                                             chunk_tokens, chunker.chunk_overlap)
                       ELSE BaseChunkRecord(Len(chunks), start, end,
                                            chunk_tokens, chunker.chunk_overlap)
            IN /\ chunks' = Append(chunks, rec)
               /\ start' = NextStart(start, chunker.chunk_size, chunker.chunk_overlap)
               /\ ck_pc' = IF end >= Len(tokens) THEN AfterLoop ELSE "loop"
       ELSE /\ ck_pc' = AfterLoop
            /\ UNCHANGED <<chunks, start>>
    /\ UNCHANGED <<chunker, ck_text, tokens, enriched_chunks, completions>>
    /\ UNCHANGED otherThanCK

\* one pass of "for i, chunk in enumerate(base_chunks)": one completion
\* call inside _generate_context, then the enriched chunk is appended
Enrich ==
    /\ ck_pc = "enrich"
    /\ Len(enriched_chunks) < Len(chunks)
    /\ LET i == Len(enriched_chunks)
           chunk == chunks[i + 1]
       IN \E outcome \in CompletionOutcomes :
             /\ completions' = Append(completions,
                    [document |-> ck_text, chunk |-> chunk.text, outcome |-> outcome])
             /\ enriched_chunks' = Append(enriched_chunks,
                    EnrichedChunkRecord(i, chunk, GenerateContext(outcome)))
    /\ UNCHANGED <<chunker, ck_text, tokens, chunks, start, ck_pc>>
    /\ UNCHANGED otherThanCK

\* the for loop is exhausted: return enriched_chunks
EnrichReturn ==
    /\ ck_pc = "enrich"
    /\ Len(enriched_chunks) = Len(chunks)
    /\ ck_pc' = "done"
    /\ UNCHANGED <<chunker, ck_text, tokens, chunks, start,
                   enriched_chunks, completions>>
    /\ UNCHANGED otherThanCK

RECURSIVE FixedChunksFrom(_, _, _, _, _)
\* the while loop of FixedChunker.chunk from window start st on, with the
\* chunks acc made so far
FixedChunksFrom(toks, chunk_size, chunk_overlap, st, acc) ==
    IF ~(st < Len(toks)) \/ Len(acc) >= MaxChunks THEN acc
    ELSE LET end == WindowEnd(st, chunk_size, Len(toks))
             rec == FixedChunkRecord(Len(acc), st, end, PySlice(toks, st, end),
                                     chunk_overlap)
         IN IF end >= Len(toks) THEN Append(acc, rec)
            ELSE FixedChunksFrom(toks, chunk_size, chunk_overlap,
                                 NextStart(st, chunk_size, chunk_overlap),
                                 Append(acc, rec))

\* the return value of FixedChunker(chunk_size, chunk_overlap).chunk(text, doc_id)
FixedChunkerChunk(text, chunk_size, chunk_overlap) ==
    FixedChunksFrom(Encode(text), chunk_size, chunk_overlap, 0, <<>>)

NextCK == Construct \/ ChunkBegin \/ ChunkLoop \/ Enrich \/ EnrichReturn

IdleCK == InitCK

(***************************************************************************)
(* Recursive chunking: separators, splitting and the overlap               *)
(***************************************************************************)
MaxRecLen == 6     \* longest text handed to RecursiveChunker.chunk

\* texts of the recursive chunker: words of "a" and "b" separated by blanks
RecChars == {"a", "b", " "}
RecTexts == UNION {[1..n -> RecChars] : n \in 0..MaxRecLen}

\* self.separators, each a character sequence; the last one is the empty string
Separators ==
    << <<"\n", "\n">>, <<"\n">>, <<".", " ">>, <<"!", " ">>, <<"?", " ">>,
       <<";", " ">>, <<",", " ">>, <<" ">>, <<>> >>

\* text starts with the non-empty string sep
StartsWith(text, sep) ==
    Len(text) >= Len(sep) /\ SubSeq(text, 1, Len(sep)) = sep

RECURSIVE StrSplitFrom(_, _, _)
\* text.split(separator), scanning left to right; cur is the piece in progress
StrSplitFrom(text, sep, cur) ==
    IF text = <<>> THEN <<cur>>
    ELSE IF StartsWith(text, sep)
         THEN <<cur>> \o StrSplitFrom(SubSeq(text, Len(sep) + 1, Len(text)), sep, <<>>)
    ELSE StrSplitFrom(Tail(text), sep, Append(cur, Head(text)))

StrSplit(text, sep) == StrSplitFrom(text, sep, <<>>)

\* list(text)
ListOfChars(text) == [i \in 1..Len(text) |-> <<text[i]>>]

RECURSIVE Join(_)
\* "".join(parts)
Join(parts) == IF parts = <<>> THEN <<>> ELSE Head(parts) \o Join(Tail(parts))

RECURSIVE RecursiveSplit(_, _, _)
RECURSIVE FinalSplits(_, _, _, _, _)
\* RecursiveChunker._recursive_split(text, separators)
RecursiveSplit(text, separators, chunk_size) ==
    IF separators = <<>> THEN <<text>>
    ELSE IF Head(separators) = <<>> THEN ListOfChars(text)
    ELSE FinalSplits(StrSplit(text, Head(separators)), 1, Head(separators),
                     Tail(separators), chunk_size)

\* the loop "for i, split in enumerate(splits)" of _recursive_split, from
\* the 1-based position i on
FinalSplits(pieces, i, separator, remaining_separators, chunk_size) ==
    IF i > Len(pieces) THEN <<>>
    ELSE IF pieces[i] = <<>>
         THEN FinalSplits(pieces, i + 1, separator, remaining_separators, chunk_size)
    ELSE LET split == IF i < Len(pieces) THEN pieces[i] \o separator ELSE pieces[i]
             split_tokens == Len(Encode(split))
         IN (IF split_tokens > chunk_size /\ remaining_separators # <<>>
             THEN RecursiveSplit(split, remaining_separators, chunk_size)
             ELSE <<split>>)
            \o FinalSplits(pieces, i + 1, separator, remaining_separators, chunk_size)

\* RecursiveChunker._get_overlap(current_chunk)
GetOverlap(parts, chunk_overlap) ==
    LET chunk_text == Join(parts)
        toks == Encode(chunk_text)
    IN IF Len(toks) <= chunk_overlap THEN chunk_text
       ELSE Decode(PySlice(toks, -chunk_overlap, Len(toks)))

\* the dict RecursiveChunker.chunk appends
RecursiveChunkRecord(n, parts, num_tokens) ==
    [text |-> Join(parts),
     doc_id |-> DocId,
     chunk_id |-> <<DocId, "_chunk_", n>>,
     num_tokens |-> num_tokens,
     method |-> "recursive"]

\* RecursiveChunker.__init__ stores the two numbers as given
NewRecursiveChunker(chunk_size, chunk_overlap) ==
    [cls |-> "RecursiveChunker", chunk_size |-> chunk_size,
     chunk_overlap |-> chunk_overlap]

(***************************************************************************)
(* Recursive chunking: state machine                                       *)
(***************************************************************************)
InitRC ==
    /\ rc = NoChunker
    /\ rc_text = <<>>
    /\ splits = <<>>
    /\ rc_i = 1
    /\ current_chunk = <<>>
    /\ current_tokens = 0
    /\ rc_chunks = <<>>
    /\ rc_parts = <<>>
    /\ rc_carried = <<>>
    /\ rc_pc = "idle"

\* RecursiveChunker(chunk_size, chunk_overlap)
RecursiveConstruct ==
    /\ rc = NoChunker
    /\ \E chunk_size \in 1..MaxChunkSize, chunk_overlap \in 0..MaxChunkSize :
          rc' = NewRecursiveChunker(chunk_size, chunk_overlap)
    /\ UNCHANGED <<rc_text, splits, rc_i, current_chunk, current_tokens,
                   rc_chunks, rc_parts, rc_carried, rc_pc>>
    /\ UNCHANGED otherThanRC

\* chunk(text, doc_id) up to the for loop
RecursiveChunkBegin ==
    /\ rc # NoChunker
    /\ rc_pc = "idle"
    /\ \E text \in RecTexts :
          /\ rc_text' = text
          /\ splits' = RecursiveSplit(text, Separators, rc.chunk_size)
    /\ rc_i' = 1
    /\ current_chunk' = <<>>
    /\ current_tokens' = 0
    /\ rc_chunks' = <<>>
    /\ rc_parts' = <<>>
    /\ rc_carried' = <<>>
    /\ rc_pc' = "loop"
    /\ UNCHANGED rc
    /\ UNCHANGED otherThanRC

\* one pass of "for split in splits"
RecursiveChunkSplit ==
    /\ rc_pc = "loop"
    /\ rc_i <= Len(splits)
    /\ LET split == splits[rc_i]
           split_tokens == Len(Encode(split))
           closes == current_tokens + split_tokens > rc.chunk_size
                        /\ current_chunk # <<>>
           overlap_text == GetOverlap(current_chunk, rc.chunk_overlap)
           kept == IF overlap_text # <<>> THEN <<overlap_text>> ELSE <<>>
           kept_tokens == IF overlap_text # <<>> THEN Len(Encode(overlap_text)) ELSE 0
       IN IF closes
          THEN /\ rc_chunks' = Append(rc_chunks,
                      RecursiveChunkRecord(Len(rc_chunks), current_chunk, current_tokens))
               /\ rc_parts' = Append(rc_parts, current_chunk)
               /\ rc_carried' = Append(rc_carried, overlap_text)
               /\ current_chunk' = Append(kept, split)
               /\ current_tokens' = kept_tokens + split_tokens
          ELSE /\ current_chunk' = Append(current_chunk, split)
               /\ current_tokens' = current_tokens + split_tokens
               /\ UNCHANGED <<rc_chunks, rc_parts, rc_carried>>
    /\ rc_i' = rc_i + 1
    /\ UNCHANGED <<rc, rc_text, splits, rc_pc>>
    /\ UNCHANGED otherThanRC

\* after the loop: "if current_chunk" appends the final chunk, then return
RecursiveChunkReturn ==
    /\ rc_pc = "loop"
    /\ rc_i > Len(splits)
    /\ IF current_chunk # <<>>
       THEN /\ rc_chunks' = Append(rc_chunks,
                   RecursiveChunkRecord(Len(rc_chunks), current_chunk, current_tokens))
            /\ rc_parts' = Append(rc_parts, current_chunk)
       ELSE UNCHANGED <<rc_chunks, rc_parts>>
    /\ rc_pc' = "done"
    /\ UNCHANGED <<rc, rc_text, splits, rc_i, current_chunk, current_tokens, rc_carried>>
    /\ UNCHANGED otherThanRC

NextRC ==
    RecursiveConstruct \/ RecursiveChunkBegin \/ RecursiveChunkSplit
        \/ RecursiveChunkReturn

IdleRC == InitRC

(***************************************************************************)
(* Embedding caches: ChunkEvaluator and EmbeddingManager                   *)
(***************************************************************************)
MaxBatch == 2      \* longest list of chunk texts in one request
MaxRequests == 2   \* requests followed on one instance

\* chunk texts handed to the caches
EmbTexts == {"p", "q"}
Batches == UNION {[1..n -> EmbTexts] : n \in 0..MaxBatch}

\* A dict is the set of its (key, value) pairs, one pair per key.
CacheHas(d, key) == \E p \in d : p[1] = key
CacheGet(d, key) == (CHOOSE p \in d : p[1] = key)[2]
CachePut(d, key, v) == {p \in d : p[1] # key} \cup {<<key, v>>}

\* ChunkEvaluator._get_chunk_hash: the first 16 hex digits of the SHA-256
\* digest, taken as one-to-one on the texts
GetChunkHash(chunk_text) == <<"sha256[:16]", chunk_text>>
\* EmbeddingManager._compute_hash: the SHA-256 digest, one-to-one
EMComputeHash(text) == <<"sha256", text>>

\* an embedding is a numpy array or, after tolist(), a list of floats
NpArray(v) == [kind |-> "ndarray", of |-> v.of]
ToList(v) == [kind |-> "list", of |-> v.of]
\* Embedder.embed(texts): one client.embeddings.create call, one row per text
EmbedderEmbed(texts) == [i \in 1..Len(texts) |-> [kind |-> "ndarray", of |-> texts[i]]]
\* Embedder.embed_query(query), query not empty: self.embed([query])[0]
EmbedderEmbedQuery(query) == EmbedderEmbed(<<query>>)[1]

\* The cache file: absent, a JSON object, or a file that cannot be loaded:
\* text that is not JSON, bytes that are not text, or no permission to open.
BadFileStates == {"not_json", "not_text", "unreadable"}
FileAbsent == [state |-> "absent", data |-> {}]
FileValid(d) == [state |-> "valid", data |-> d]
FileBad(st) == [state |-> st, data |-> {}]

\* the exception open() + json.load / read_text + json.loads raise on the file
ReadError(file) ==
    CASE file.state = "not_json" -> "JSONDecodeError"
      [] file.state = "not_text" -> "UnicodeDecodeError"
      [] file.state = "unreadable" -> "PermissionError"
      [] OTHER -> "none"

Loaded(cache) == [raised |-> "none", cache |-> cache]
LoadRaised(exc) == [raised |-> exc, cache |-> {}]

\* ChunkEvaluator._load_cache: except (json.JSONDecodeError, IOError)
CELoadCache(file) ==
    IF file.state = "absent" THEN Loaded({})
    ELSE IF ReadError(file) \in {"JSONDecodeError", "PermissionError"} THEN Loaded({})
    ELSE IF ReadError(file) # "none" THEN LoadRaised(ReadError(file))
    ELSE Loaded({<<p[1], NpArray(p[2])>> : p \in file.data})

\* EmbeddingManager._load_cache: except json.JSONDecodeError
EMLoadCache(file) ==
    IF file.state = "absent" THEN Loaded({})
    ELSE IF ReadError(file) = "JSONDecodeError" THEN Loaded({})
    ELSE IF ReadError(file) # "none" THEN LoadRaised(ReadError(file))
    ELSE Loaded(file.data)

\* whether open(file, "w") can succeed: a file without read permission may
\* or may not be writable
Writable(file) == IF file.state = "unreadable" THEN BOOLEAN ELSE {TRUE}

\* ChunkEvaluator._save_cache: the file after the call (except IOError: pass)
CESaveCache(file, cache, writable) ==
    IF ~writable THEN file
    ELSE FileValid({<<p[1], ToList(p[2])>> : p \in cache})

\* the instance: class, whether constructed, cache_dir given, the cache dict
NoInstance(cls) == [cls |-> cls, live |-> FALSE, has_dir |-> FALSE, cache |-> {}]
Instance(cls, has_dir, cache) ==
    [cls |-> cls, live |-> TRUE, has_dir |-> has_dir, cache |-> cache]

NoEcCall == [op |-> "none", outcome |-> "none", loaded |-> "none",
             batch |-> <<>>, result |-> <<>>]
EcCall(op, outcome, loaded, batch, result) ==
    [op |-> op, outcome |-> outcome, loaded |-> loaded,
     batch |-> batch, result |-> result]

\* the cache files an instance of cls can find on disk
InitialFiles(cls) ==
    LET Hash(t) == IF cls = "ChunkEvaluator" THEN GetChunkHash(t) ELSE EMComputeHash(t)
    IN {FileAbsent, FileValid({}),
        FileValid({<<Hash("p"), [kind |-> "list", of |-> "p"]>>})}
         \cup {FileBad(st) : st \in BadFileStates}

InitEC ==
    /\ \E cls \in {"ChunkEvaluator", "EmbeddingManager"} :
          /\ ec = NoInstance(cls)
          /\ ec_file \in InitialFiles(cls)
    /\ embed_calls = <<>>
    /\ ec_requests = 0
    /\ ecCall = NoEcCall

\* ChunkEvaluator(embedder, cache_dir)
NewChunkEvaluator ==
    /\ ec.cls = "ChunkEvaluator" /\ ~ec.live /\ ecCall.op = "none"
    /\ \E has_dir \in BOOLEAN :
          LET r == IF has_dir THEN CELoadCache(ec_file) ELSE Loaded({})
              loaded == IF has_dir THEN ec_file.state ELSE "none"
          IN IF r.raised = "none"
             THEN /\ ec' = Instance("ChunkEvaluator", has_dir, r.cache)
                  /\ ecCall' = EcCall("new", "ok", loaded, <<>>, <<>>)
             ELSE /\ ecCall' = EcCall("new", r.raised, loaded, <<>>, <<>>)
                  /\ UNCHANGED ec
    /\ UNCHANGED <<ec_file, embed_calls, ec_requests>>
    /\ UNCHANGED otherThanEC

\* EmbeddingManager(cache_dir)
NewEmbeddingManager ==
    /\ ec.cls = "EmbeddingManager" /\ ~ec.live /\ ecCall.op = "none"
    /\ LET r == EMLoadCache(ec_file)
       IN IF r.raised = "none"
          THEN /\ ec' = Instance("EmbeddingManager", TRUE, r.cache)
               /\ ecCall' = EcCall("new", "ok", ec_file.state, <<>>, <<>>)
          ELSE /\ ecCall' = EcCall("new", r.raised, ec_file.state, <<>>, <<>>)
               /\ UNCHANGED ec
    /\ UNCHANGED <<ec_file, embed_calls, ec_requests>>
    /\ UNCHANGED otherThanEC

\* positions of chunk_texts whose hash is not in the cache, in order
RECURSIVE Uncached(_, _, _)
Uncached(chunk_texts, cache, i) ==
    IF i > Len(chunk_texts) THEN <<>>
    ELSE (IF CacheHas(cache, GetChunkHash(chunk_texts[i])) THEN <<>> ELSE <<i>>)
            \o Uncached(chunk_texts, cache, i + 1)

\* the loop "self.embedding_cache[chunk_hash] = embedding" over the zip
RECURSIVE StoreNew(_, _, _, _, _)
StoreNew(cache, chunk_texts, indices, new_embeddings, j) ==
    IF j > Len(indices) THEN cache
    ELSE StoreNew(CachePut(cache, GetChunkHash(chunk_texts[indices[j]]), new_embeddings[j]),
                  chunk_texts, indices, new_embeddings, j + 1)

\* ChunkEvaluator._get_embeddings(chunk_texts)
GetEmbeddings ==
    /\ ec.cls = "ChunkEvaluator" /\ ec.live
    /\ ec_requests < MaxRequests
    /\ \E chunk_texts \in Batches, writable \in Writable(ec_file) :
          LET indices_to_embed == Uncached(chunk_texts, ec.cache, 1)
              texts_to_embed == [j \in 1..Len(indices_to_embed) |->
                                    chunk_texts[indices_to_embed[j]]]
              new_embeddings == EmbedderEmbed(texts_to_embed)
              cache == StoreNew(ec.cache, chunk_texts, indices_to_embed,
                                new_embeddings, 1)
              \* the embedding returned for position i: the cached one, or
              \* the one the embedder returned for that position
              result == [i \in 1..Len(chunk_texts) |->
                           IF CacheHas(ec.cache, GetChunkHash(chunk_texts[i]))
                           THEN CacheGet(ec.cache, GetChunkHash(chunk_texts[i]))
                           ELSE [kind |-> "ndarray", of |-> chunk_texts[i]]]
          IN /\ IF texts_to_embed # <<>>
                THEN /\ embed_calls' = Append(embed_calls, texts_to_embed)
                     /\ ec' = [ec EXCEPT !.cache = cache]
                     /\ ec_file' = IF ec.has_dir THEN CESaveCache(ec_file, cache, writable)
                                   ELSE ec_file
                ELSE UNCHANGED <<embed_calls, ec, ec_file>>
             /\ ecCall' = EcCall("_get_embeddings", "ok", "none", chunk_texts, result)
    /\ ec_requests' = ec_requests + 1
    /\ UNCHANGED otherThanEC

\* the for loop of EmbeddingManager.embed_chunks from position idx on;
\* _cache_embedding writes the whole cache file after every new embedding
\* (the constructor has read the file, or found none: it can be written)
RECURSIVE EmbedChunksFrom(_, _, _)
EmbedChunksFrom(chunk_list, idx, st) ==
    IF idx > Len(chunk_list) THEN st
    ELSE LET chunk == chunk_list[idx]
             text_hash == EMComputeHash(chunk)
         IN IF CacheHas(st.cache, text_hash)
            THEN EmbedChunksFrom(chunk_list, idx + 1,
                    [st EXCEPT !.results = Append(@,
                        [chunk_id |-> idx, text |-> chunk, text_hash |-> text_hash,
                         embedding |-> CacheGet(st.cache, text_hash)])])
            ELSE LET embedding == ToList(EmbedderEmbedQuery(chunk))
                     cache == CachePut(st.cache, text_hash, embedding)
                     calls == Append(st.calls, <<chunk>>)
                 IN EmbedChunksFrom(chunk_list, idx + 1,
                        [cache |-> cache, calls |-> calls,
                         file |-> FileValid(cache),
                         results |-> Append(st.results,
                            [chunk_id |-> idx, text |-> chunk,
                             text_hash |-> text_hash, embedding |-> embedding])])

\* EmbeddingManager.embed_chunks(chunks)
EmbedChunks ==
    /\ ec.cls = "EmbeddingManager" /\ ec.live
    /\ ec_requests < MaxRequests
    /\ \E chunks_in \in Batches :
          LET st == EmbedChunksFrom(chunks_in, 1,
                       [cache |-> ec.cache, calls |-> embed_calls, file |-> ec_file,
                        results |-> <<>>])
          IN /\ ec' = [ec EXCEPT !.cache = st.cache]
             /\ embed_calls' = st.calls
             /\ ec_file' = st.file
             /\ ecCall' = EcCall("embed_chunks", "ok", "none", chunks_in, st.results)
    /\ ec_requests' = ec_requests + 1
    /\ UNCHANGED otherThanEC

NextEC == NewChunkEvaluator \/ NewEmbeddingManager \/ GetEmbeddings \/ EmbedChunks

IdleEC ==
    /\ ec = NoInstance("none") /\ ec_file = FileAbsent
    /\ embed_calls = <<>> /\ ec_requests = 0 /\ ecCall = NoEcCall

(***************************************************************************)
(* Corpus-level cache: EmbeddingCache                                      *)
(***************************************************************************)
MaxCacheDocs == 2  \* longest document list handed to the EmbeddingCache

\* collection names and document contents
CacheColls == {"kb", "faq"}
CacheContents == {<<"a">>, <<"a", "a">>}
CacheDocLists ==
    UNION {[1..n -> {[content |-> c] : c \in CacheContents}] : n \in 0..MaxCacheDocs}

\* the vector_store argument of needs_embedding, as far as it is asked:
\* what collection_exists and count_vectors answer for the collection
StoreAnswers == [exists : BOOLEAN, count : 0..MaxCacheDocs]

RECURSIVE JoinContents(_)
\* "".join(doc["content"] for doc in documents)
JoinContents(documents) ==
    IF documents = <<>> THEN <<>>
    ELSE IF Len(documents) = 1 THEN documents[1].content
    ELSE LET half == Len(documents) \div 2
         IN JoinContents(SubSeq(documents, 1, half))
               \o JoinContents(SubSeq(documents, half + 1, Len(documents)))

\* EmbeddingCache._compute_hash: the SHA-256 digest of the joined contents,
\* taken as one-to-one on the joined text
ComputeHash(documents) == <<"sha256", JoinContents(documents)>>

\* EmbeddingCache._load_cache_metadata: None is [found |-> FALSE]
NoMetadata == [raised |-> "none", found |-> FALSE, content_hash |-> <<>>, document_count |-> 0]
LoadCacheMetadata(file, collection_name) ==
    IF file.state = "absent" THEN NoMetadata
    ELSE IF ReadError(file) \in {"JSONDecodeError", "PermissionError"} THEN NoMetadata
    ELSE IF ReadError(file) # "none" THEN [NoMetadata EXCEPT !.raised = ReadError(file)]
    ELSE IF CacheHas(file.data, collection_name)
         THEN [raised |-> "none", found |-> TRUE,
               content_hash |-> CacheGet(file.data, collection_name).content_hash,
               document_count |-> CacheGet(file.data, collection_name).document_count]
    ELSE NoMetadata

\* EmbeddingCache._save_cache_metadata: the exception raised and the file
\* after the call; writable says whether open(cache_file, "w") succeeds
SaveCacheMetadata(file, collection_name, metadata, writable) ==
    LET cache_data == IF file.state = "valid" THEN file.data ELSE {}
    IN IF file.state # "absent" /\ ReadError(file) = "UnicodeDecodeError"
       THEN [raised |-> "UnicodeDecodeError", file |-> file]
       ELSE IF ~writable THEN [raised |-> "PermissionError", file |-> file]
       ELSE [raised |-> "none",
             file |-> FileValid(CachePut(cache_data, collection_name, metadata))]

\* EmbeddingCache.needs_embedding(collection_name, documents, vector_store)
NeedsEmbedding(file, collection_name, documents, store) ==
    IF ~store.exists THEN [raised |-> "none", result |-> TRUE]
    ELSE IF store.count # Len(documents) THEN [raised |-> "none", result |-> TRUE]
    ELSE LET current_hash == ComputeHash(documents)
             cached_metadata == LoadCacheMetadata(file, collection_name)
         IN IF cached_metadata.raised # "none"
            THEN [raised |-> cached_metadata.raised, result |-> TRUE]
            ELSE IF ~cached_metadata.found THEN [raised |-> "none", result |-> TRUE]
            ELSE IF cached_metadata.content_hash # current_hash
                 THEN [raised |-> "none", result |-> TRUE]
            ELSE IF cached_metadata.document_count # Len(documents)
                 THEN [raised |-> "none", result |-> TRUE]
            ELSE [raised |-> "none", result |-> FALSE]

NotMarked == [marked |-> FALSE, documents |-> <<>>]
NoDcCall == [op |-> "none", collection_name |-> "none", documents |-> <<>>,
             store |-> [exists |-> FALSE, count |-> 0],
             loaded |-> "none", raised |-> "none", result |-> TRUE]

InitDC ==
    /\ dc_file \in {FileAbsent} \cup {FileBad(st) : st \in BadFileStates}
    /\ dc_marked = [c \in CacheColls |-> NotMarked]
    /\ dcCall = NoDcCall

\* cache.needs_embedding(collection_name, documents, vector_store)
NeedsEmbeddingCall ==
    /\ \E collection_name \in CacheColls, documents \in CacheDocLists,
          store \in StoreAnswers :
          LET r == NeedsEmbedding(dc_file, collection_name, documents, store)
          IN dcCall' = [op |-> "needs_embedding", collection_name |-> collection_name,
                        documents |-> documents, store |-> store,
                        loaded |-> dc_file.state,
                        raised |-> r.raised, result |-> r.result]
    /\ UNCHANGED <<dc_file, dc_marked>>
    /\ UNCHANGED otherThanDC

\* cache.mark_embedded(collection_name, documents)
MarkEmbeddedCall ==
    /\ \E collection_name \in CacheColls, documents \in CacheDocLists,
          writable \in Writable(dc_file) :
          LET metadata == [content_hash |-> ComputeHash(documents),
                           document_count |-> Len(documents)]
              r == SaveCacheMetadata(dc_file, collection_name, metadata, writable)
          IN /\ dc_file' = r.file
             /\ dc_marked' = IF r.raised = "none"
                             THEN [dc_marked EXCEPT ![collection_name] =
                                     [marked |-> TRUE, documents |-> documents]]
                             ELSE dc_marked
             /\ dcCall' = [op |-> "mark_embedded", collection_name |-> collection_name,
                           documents |-> documents,
                           store |-> [exists |-> FALSE, count |-> 0],
                           loaded |-> dc_file.state,
                           raised |-> r.raised, result |-> TRUE]
    /\ UNCHANGED otherThanDC

NextDC == NeedsEmbeddingCall \/ MarkEmbeddedCall

IdleDC ==
    /\ dc_file = FileAbsent
    /\ dc_marked = [c \in CacheColls |-> NotMarked]
    /\ dcCall = NoDcCall

(***************************************************************************)
(* Vector store: QdrantVectorStore                                         *)
(***************************************************************************)
MaxStoreOps == 2   \* calls followed on one store

\* batch_size of add_vectors
batch_size == 100

StoreColls == {"kb", "faq"}
VectorDims == {384, 1536}
\* list lengths handed to add_vectors: empty, one point, and one batch plus
\* one point
ListLens == {0, 1, batch_size + 1}
\* what tells the vectors and payloads of one call from those of another
Tags == {"u", "w"}

\* the arguments of add_vectors: ids 1..n, one vector and one metadata
\* dict per position, each naming its tag and position
IdList(n) == [i \in 1..n |-> i]
VectorArray(n, tag) == [i \in 1..n |-> [kind |-> "ndarray", of |-> <<tag, i>>]]
MetadataList(n, tag) == [i \in 1..n |-> {<<"path", <<tag, i>>>>}]
\* metadata=None
NoMetadataArg == [given |-> FALSE, list |-> <<>>]
MetadataArg(n, tag) == [given |-> TRUE, list |-> MetadataList(n, tag)]
MetadataArgs(tag) == {NoMetadataArg} \cup {MetadataArg(n, tag) : n \in ListLens}

\* a collection of the Qdrant server
NoCollection == [exists |-> FALSE, size |-> 0, points |-> {}]
EmptyCollection(vector_dim) == [exists |-> TRUE, size |-> vector_dim, points |-> {}]

\* PointStruct(id=vector_id, vector=vector.tolist(), payload=payload)
PointStruct(vector_id, vector, payload) ==
    [id |-> vector_id, vector |-> ToList(vector), payload |-> payload]

\* client.upsert(collection_name, points=batch) on an existing collection:
\* a point replaces the stored point of the same id
Upsert(coll, batch) ==
    [coll EXCEPT !.points =
        {p \in @ : \A j \in DOMAIN batch : batch[j].id # p.id}
           \cup {batch[j] : j \in DOMAIN batch}]

\* the shorter of two lengths: where zip(vectors, ids) stops
Min2(x, y) == IF x < y THEN x ELSE y

\* the loop that builds points: zip(vectors, ids) stops at the shorter list
BuildPoints(vectors, ids, metadata) ==
    [idx \in 1..Min2(Len(vectors), Len(ids)) |->
        PointStruct(ids[idx], vectors[idx],
                    IF metadata.given /\ metadata.list # <<>>
                    THEN metadata.list[idx] ELSE {})]

RECURSIVE UploadFrom(_, _, _)
\* "for i in range(0, len(points), batch_size)": the upserts from offset i
\* on; an upsert into a missing collection is refused by the server
UploadFrom(coll, points, i) ==
    IF i >= Len(points) THEN [raised |-> "none", coll |-> coll]
    ELSE IF ~coll.exists THEN [raised |-> "NotFound", coll |-> coll]
    ELSE UploadFrom(Upsert(coll, PySlice(points, i, i + batch_size)),
                    points, i + batch_size)

\* QdrantVectorStore.add_vectors: "if metadata and ..." skips an empty list
AddVectors(coll, vectors, ids, metadata) ==
    IF Len(vectors) # Len(ids) THEN [raised |-> "ValueError", coll |-> coll]
    ELSE IF (metadata.given /\ metadata.list # <<>>) /\ Len(metadata.list) # Len(ids)
         THEN [raised |-> "ValueError", coll |-> coll]
    ELSE UploadFrom(coll, BuildPoints(vectors, ids, metadata), 0)

\* QdrantVectorStore.collection_exists: get_collection raises for a missing
\* collection and, when reachable is FALSE, for a reason of the connection;
\* "except Exception" answers False to both
CollectionExists(coll, reachable) == reachable /\ coll.exists

\* a create_collection that keeps the points of an existing collection
CreateCollectionKeep(coll, vector_dim, reachable) ==
    IF coll.exists THEN [raised |-> "none", coll |-> [coll EXCEPT !.size = vector_dim]]
    ELSE [raised |-> "none", coll |-> EmptyCollection(vector_dim)]
\* QdrantVectorStore.create_collection: delete when it exists, then
\* client.create_collection, which refuses a name that exists
CreateCollection(coll, vector_dim, reachable) ==
    LET afterDelete == IF CollectionExists(coll, reachable) THEN NoCollection ELSE coll
    IN IF afterDelete.exists THEN [raised |-> "AlreadyExists", coll |-> afterDelete]
       ELSE [raised |-> "none", coll |-> EmptyCollection(vector_dim)]

NoVsCall == [op |-> "none", collection_name |-> "none", raised |-> "none",
             vector_dim |-> 0, result |-> FALSE, points_before |-> 0]

\* what a collection of the server holds when the store connects to it:
\* nothing, no points yet, or the point of an earlier add_vectors
InitialCollections ==
    {NoCollection, EmptyCollection(384),
     AddVectors(EmptyCollection(384), VectorArray(1, "w"), IdList(1),
                NoMetadataArg).coll}

InitVS ==
    /\ collections \in [StoreColls -> InitialCollections]
    /\ vsCall = NoVsCall
    /\ vs_ops = 0

\* vector_store.create_collection(collection_name, vector_dim)
CreateCollectionCall ==
    /\ vs_ops < MaxStoreOps
    /\ \E collection_name \in StoreColls, vector_dim \in VectorDims,
          reachable \in BOOLEAN :
          LET r == CreateCollection(collections[collection_name], vector_dim, reachable)
          IN /\ collections' = [collections EXCEPT ![collection_name] = r.coll]
             /\ vsCall' = [NoVsCall EXCEPT !.op = "create_collection",
                              !.collection_name = collection_name,
                              !.vector_dim = vector_dim, !.raised = r.raised,
                              !.points_before =
                                  Cardinality(collections[collection_name].points)]
    /\ vs_ops' = vs_ops + 1
    /\ UNCHANGED otherThanVS

\* vector_store.add_vectors(collection_name, vectors, ids, metadata)
AddVectorsCall ==
    /\ vs_ops < MaxStoreOps
    /\ \E collection_name \in StoreColls, n_vectors \in ListLens, n_ids \in ListLens,
          tag \in Tags :
          \E metadata \in MetadataArgs(tag) :
          LET r == AddVectors(collections[collection_name],
                              VectorArray(n_vectors, tag), IdList(n_ids), metadata)
          IN /\ collections' = [collections EXCEPT ![collection_name] = r.coll]
             /\ vsCall' = [NoVsCall EXCEPT !.op = "add_vectors",
                              !.collection_name = collection_name,
                              !.raised = r.raised,
                              !.points_before =
                                  Cardinality(collections[collection_name].points)]
    /\ vs_ops' = vs_ops + 1
    /\ UNCHANGED otherThanVS

\* vector_store.delete_collection(collection_name)
DeleteCollectionCall ==
    /\ vs_ops < MaxStoreOps
    /\ \E collection_name \in StoreColls :
          /\ collections' = [collections EXCEPT ![collection_name] = NoCollection]
          /\ vsCall' = [NoVsCall EXCEPT !.op = "delete_collection",
                           !.collection_name = collection_name,
                           !.points_before =
                               Cardinality(collections[collection_name].points)]
    /\ vs_ops' = vs_ops + 1
    /\ UNCHANGED otherThanVS

\* vector_store.collection_exists(collection_name)
CollectionExistsCall ==
    /\ vs_ops < MaxStoreOps
    /\ \E collection_name \in StoreColls, reachable \in BOOLEAN :
          vsCall' = [NoVsCall EXCEPT !.op = "collection_exists",
                        !.collection_name = collection_name,
                        !.result = CollectionExists(collections[collection_name], reachable),
                        !.points_before =
                            Cardinality(collections[collection_name].points)]
    /\ vs_ops' = vs_ops + 1
    /\ UNCHANGED collections
    /\ UNCHANGED otherThanVS

NextVS ==
    CreateCollectionCall \/ AddVectorsCall \/ DeleteCollectionCall
        \/ CollectionExistsCall

IdleVS ==
    /\ collections = [c \in StoreColls |-> NoCollection]
    /\ vsCall = NoVsCall
    /\ vs_ops = 0

(***************************************************************************)
(* Semantic search tool: search_documents                                  *)
(***************************************************************************)
\* A path is a sequence of symbols: folder names, "/", base names, ".txt".
\* The ids load_documents gives: f"{doc_dir.name}/{doc_file.name}" over
\* doc_dir.glob("*.txt")
DocumentIds ==
    {<<"kb", "/", "a", ".txt">>, <<"kb", "/", "b", ".txt">>,
     <<"kb", "/", "c", ".txt">>, <<"hr", "/", "d", ".txt">>}

\* cosine scores of the engine, in units of 0.00001
Scores == {0, 4, 70000}
\* the top_k argument: below, inside and above the accepted range
TopKs == {0, 1, 2, 11}
\* the query argument
QueryStrings == {"", "q"}
\* the file_path argument: None, the empty string, folders, files
NoFilePath == [given |-> FALSE, path |-> <<>>]
FilePath(path) == [given |-> TRUE, path |-> path]
FilePaths ==
    {NoFilePath} \cup
    {FilePath(p) : p \in {<<>>, <<"kb">>, <<"kb", "/">>, <<"hr">>,
                          <<"kb", "/", "a", ".txt">>, <<"hr", "/", "d", ".txt">>}}

\* "if file_path": None and "" are falsy
Truthy(file_path) == file_path.given /\ file_path.path # <<>>

\* str.endswith
EndsWith(text, suffix) ==
    Len(text) >= Len(suffix)
        /\ SubSeq(text, Len(text) - Len(suffix) + 1, Len(text)) = suffix

\* the payload initialize() stores with a document
StoredMetadata(doc_id) ==
    [content |-> <<"content of">> \o doc_id,
     path |-> <<"documents", "/">> \o doc_id,
     doc_id |-> doc_id]

\* QdrantVectorStore.get_metadata: the payload, or None for a missing id
GetMetadata(documents, doc_id) ==
    IF doc_id \in documents
    THEN [found |-> TRUE, payload |-> StoredMetadata(doc_id)]
    ELSE [found |-> FALSE, payload |-> StoredMetadata(<<>>)]

RECURSIVE Rankings(_, _)
\* the orders in which the engine may rank documents: best score first,
\* documents of equal score in any order
Rankings(documents, scores) ==
    IF documents = {} THEN {<<>>}
    ELSE UNION {{<<d>> \o rest : rest \in Rankings(documents \ {d}, scores)} :
                   d \in {x \in documents :
                             \A y \in documents : scores[x] >= scores[y]}}

\* QdrantVectorStore.search without filter_conditions: the top_k points of
\* the collection by score, best first, as (id, score) pairs
VectorStoreSearch(documents, scores, top_k) ==
    {PySlice([i \in DOMAIN order |-> <<order[i], scores[order[i]]>>], 0, top_k) :
        order \in Rankings(documents, scores)}

\* [(doc_id, score) for doc_id, score in results if doc_id in kept]
FilterResults(results, kept) ==
    LET F[i \in 0..Len(results)] ==
            IF i = 0 THEN <<>>
            ELSE IF results[i][1] \in kept THEN Append(F[i - 1], results[i])
                 ELSE F[i - 1]
    IN F[Len(results)]

\* filter_results_by_path
FilterResultsByPath(results, file_path) ==
    LET doc_ids == {results[i][1] : i \in DOMAIN results}
    IN IF ~Truthy(file_path) THEN results
       ELSE IF EndsWith(file_path.path, <<".txt">>)
            THEN FilterResults(results, {doc_id \in doc_ids : doc_id = file_path.path})
       ELSE LET prefix == IF EndsWith(file_path.path, <<"/">>) THEN file_path.path
                          ELSE file_path.path \o <<"/">>
            IN FilterResults(results,
                             {doc_id \in doc_ids : StartsWith(doc_id, prefix)})

\* round(float(score), 4) of a score in units of 0.00001
Round4(score) == ((score + 5) \div 10) * 10

\* format_results
FormatResults(search_results, documents) ==
    LET F[i \in 0..Len(search_results)] ==
            IF i = 0 THEN <<>>
            ELSE LET doc_id == search_results[i][1]
                     score == search_results[i][2]
                     metadata == GetMetadata(documents, doc_id)
                 IN IF score = 0 THEN F[i - 1]
                    ELSE IF metadata.found
                         THEN Append(F[i - 1],
                                     [document_id |-> doc_id,
                                      relevance_score |-> Round4(score),
                                      content |-> metadata.payload.content,
                                      path |-> metadata.payload.path])
                    ELSE F[i - 1]
    IN F[Len(search_results)]

\* top_k = max(1, min(top_k, 10))
ClampTopK(top_k) ==
    LET capped == IF top_k < 10 THEN top_k ELSE 10
    IN IF capped > 1 THEN capped ELSE 1

\* search_limit
SearchLimit(top_k, file_path) ==
    IF Truthy(file_path) /\ ~EndsWith(file_path.path, <<".txt">>)
    THEN ClampTopK(top_k) * 3 ELSE ClampTopK(top_k)

\* the responses of search_documents: the except branch answers a query that
\* embed_query refuses (an empty one); otherwise one response for every
\* order the engine may return
SearchDocuments(documents, scores, query, top_k, file_path) ==
    IF query = ""
    THEN {[error |-> TRUE, query |-> query, result_count |-> 0, results |-> <<>>,
           file_filter |-> NoFilePath]}
    ELSE {LET filtered == IF Truthy(file_path)
                          THEN PySlice(FilterResultsByPath(search_results, file_path),
                                       0, ClampTopK(top_k))
                          ELSE search_results
              results == FormatResults(filtered, documents)
          IN [error |-> FALSE, query |-> query, result_count |-> Len(results),
              results |-> results,
              file_filter |-> IF Truthy(file_path) THEN file_path ELSE NoFilePath] :
          search_results \in
              VectorStoreSearch(documents, scores, SearchLimit(top_k, file_path))}

NoSqCall == [op |-> "none", query |-> "", top_k |-> 0, file_path |-> NoFilePath]
NoResponse == [error |-> FALSE, query |-> "", result_count |-> 0, results |-> <<>>,
               file_filter |-> NoFilePath]

\* after initialize(): the documents are indexed, each at its similarity to
\* the query "q"
InitSQ ==
    /\ sq_documents \in (SUBSET DocumentIds) \ {{}}
    /\ similarity \in [sq_documents -> Scores]
    /\ sqCall = NoSqCall
    /\ response = NoResponse

\* search_documents(query, top_k, file_path)
SearchDocumentsCall ==
    /\ \E query \in QueryStrings, top_k \in TopKs, file_path \in FilePaths :
          /\ response' \in SearchDocuments(sq_documents, similarity, query, top_k,
                                           file_path)
          /\ sqCall' = [op |-> "search_documents", query |-> query,
                        top_k |-> top_k, file_path |-> file_path]
    /\ UNCHANGED <<sq_documents, similarity>>
    /\ UNCHANGED otherThanSQ

NextSQ == SearchDocumentsCall

IdleSQ ==
    /\ sq_documents = {}
    /\ similarity = <<>>
    /\ sqCall = NoSqCall
    /\ response = NoResponse

(***************************************************************************)
(* Hierarchical map-reduce summarizer: HierarchicalSummarizer              *)
(***************************************************************************)
MaxSumDocs == 3     \* longest document list handed to process_documents
MaxBatchSize == 2   \* largest batch_size of a summarizer
MaxConcurrent == 2  \* largest max_concurrent of a summarizer
MaxLevel == 3       \* the level counter is followed up to here and then stays

\* the task of one completion call: summarize_document (kind "map", level
\* 0), combine_summaries (kind "reduce") or create_executive_summary
TaskKey(kind, lvl, num) == <<kind, lvl, num>>
\* a coroutine waits for the semaphore, is in its completion call ("calling")
\* and ends by returning ("done") or raising ValueError ("raised")
NewTask(inputs) == [st |-> "waiting", inputs |-> inputs]

\* a file of output_dir; the level files carry their level in the name
File(name, lvl) == <<name, lvl>>

\* the tasks handed to one asyncio.gather, added to those of earlier levels
Gathered(old, new) ==
    [k \in DOMAIN old \cup DOMAIN new |-> IF k \in DOMAIN new THEN new[k] ELSE old[k]]

\* the tasks of the gather being awaited
CurrentTasks == {k \in DOMAIN tasks : k[1] = sm_pc /\ k[2] = gather_level}

\* "[current_summaries[i:i + batch_size] for i in range(0, len, batch_size)]"
SummaryBatches(summaries, size) ==
    [b \in 1..((Len(summaries) + size - 1) \div size) |->
        PySlice(summaries, (b - 1) * size, (b - 1) * size + size)]

\* level += 1, followed up to MaxLevel
NextLevel(lvl) == IF lvl < MaxLevel THEN lvl + 1 ELSE lvl

\* what follows a gather in process_documents: the "while
\* len(current_summaries) > 1" test, then either the combine tasks of the
\* next gather or the executive-summary call; range() refuses a step of 0
\* and current_summaries[0] an empty list
AfterGather(summaries, lvl) ==
    IF Len(summaries) > 1
    THEN IF sm.batch_size = 0
         THEN [pc |-> "failed", tasks |-> tasks, raised |-> "ValueError"]
         ELSE LET batches == SummaryBatches(summaries, sm.batch_size)
              IN [pc |-> "reduce", raised |-> "none",
                  tasks |-> Gathered(tasks,
                      [k \in {TaskKey("reduce", lvl, n - 1) : n \in DOMAIN batches}
                          |-> NewTask(batches[k[3] + 1])])]
    ELSE IF summaries = <<>>
         THEN [pc |-> "failed", tasks |-> tasks, raised |-> "IndexError"]
    ELSE [pc |-> "final", raised |-> "none",
          tasks |-> Gathered(tasks,
              [k \in {TaskKey("final", lvl, 0)} |-> NewTask(<<summaries[1]>>)])]

\* HierarchicalSummarizer(batch_size, max_concurrent) and the documents
\* handed to process_documents, which has not been called yet
InitSM ==
    /\ sm \in [batch_size : 0..MaxBatchSize, max_concurrent : 0..MaxConcurrent]
    /\ sm_documents \in 0..MaxSumDocs
    /\ semaphore = sm.max_concurrent
    /\ sm_pc = "ready"
    /\ gather_level = 0
    /\ level = 0
    /\ current_summaries = <<>>
    /\ tasks = <<>>
    /\ files = {}
    /\ sm_raised = "none"

\* process_documents up to its first await: one summarize_document
\* coroutine per document is handed to asyncio.gather
ProcessDocuments ==
    /\ sm_pc = "ready"
    /\ sm_pc' = "map"
    /\ tasks' = [k \in {TaskKey("map", 0, i - 1) : i \in 1..sm_documents}
                    |-> NewTask(<<TaskKey("document", 0, k[3])>>)]
    /\ UNCHANGED <<sm, sm_documents, semaphore, gather_level, level,
                   current_summaries, files, sm_raised>>
    /\ UNCHANGED otherThanSM

\* a semaphore that lets every coroutine in
SemaphoreAlwaysFree == TRUE
\* asyncio.Semaphore: acquire() goes on when the value is above zero
SemaphoreFree == semaphore > 0

\* "async with self.semaphore": a coroutine enters when the semaphore is
\* above zero and then awaits client.chat.completions.create
TaskAcquire ==
    /\ \E k \in DOMAIN tasks :
          /\ tasks[k].st = "waiting"
          /\ SemaphoreFree
          /\ tasks' = [tasks EXCEPT ![k].st = "calling"]
          /\ semaphore' = semaphore - 1
    /\ UNCHANGED <<sm, sm_documents, sm_pc, gather_level, level,
                   current_summaries, files, sm_raised>>
    /\ UNCHANGED otherThanSM

\* the completion call returns: the coroutine returns its summary and
\* leaves the semaphore
TaskReturn ==
    /\ \E k \in DOMAIN tasks :
          /\ tasks[k].st = "calling"
          /\ tasks' = [tasks EXCEPT ![k].st = "done"]
          /\ semaphore' = semaphore + 1
    /\ UNCHANGED <<sm, sm_documents, sm_pc, gather_level, level,
                   current_summaries, files, sm_raised>>
    /\ UNCHANGED otherThanSM

\* the completion call fails: "except Exception" raises ValueError and the
\* coroutine leaves the semaphore
TaskRaise ==
    /\ \E k \in DOMAIN tasks :
          /\ tasks[k].st = "calling"
          /\ tasks' = [tasks EXCEPT ![k].st = "raised"]
          /\ semaphore' = semaphore + 1
    /\ UNCHANGED <<sm, sm_documents, sm_pc, gather_level, level,
                   current_summaries, files, sm_raised>>
    /\ UNCHANGED otherThanSM

\* a gather that resumes as soon as one of its tasks has returned
GatherReadyAny == \E k \in CurrentTasks : tasks[k].st = "done"
\* a gather that collects exceptions as results (return_exceptions=True)
GatherReadyTolerant == \A k \in CurrentTasks : tasks[k].st \in {"done", "raised"}
\* asyncio.gather(*tasks) resumes with the results when every task has
\* returned
GatherReady == \A k \in CurrentTasks : tasks[k].st = "done"

\* the summaries the tasks of the awaited gather have returned, in task order
GatherResults == [i \in 1..Cardinality(CurrentTasks) |-> <<sm_pc, gather_level, i - 1>>]

\* "doc_summaries = await asyncio.gather(*map_tasks)" resumes: the individual
\* summaries are written, level = 1, and the reduce loop starts
MapGathered ==
    /\ sm_pc = "map"
    /\ GatherReady
    /\ LET next == AfterGather(GatherResults, 1)
       IN /\ sm_pc' = next.pc
          /\ tasks' = next.tasks
          /\ sm_raised' = next.raised
    /\ files' = files \cup {File("01_individual_summaries.json", 0)}
    /\ current_summaries' = GatherResults
    /\ level' = 1
    /\ gather_level' = 1
    /\ UNCHANGED <<sm, sm_documents, semaphore>>
    /\ UNCHANGED otherThanSM

\* "batch_results = await asyncio.gather(*combine_tasks)" resumes: the level
\* file is written, level += 1, and the loop test is made again
ReduceGathered ==
    /\ sm_pc = "reduce"
    /\ GatherReady
    /\ LET next == AfterGather(GatherResults, NextLevel(level))
       IN /\ sm_pc' = next.pc
          /\ tasks' = next.tasks
          /\ sm_raised' = next.raised
    /\ files' = files \cup {File("02_level_{level}_summaries.json", level)}
    /\ current_summaries' = GatherResults
    /\ level' = NextLevel(level)
    /\ gather_level' = NextLevel(level)
    /\ UNCHANGED <<sm, sm_documents, semaphore>>
    /\ UNCHANGED otherThanSM

\* "await self.create_executive_summary(...)" resumes: the executive summary
\* and the metadata are written and process_documents returns
FinalReturned ==
    /\ sm_pc = "final"
    /\ GatherReady
    /\ sm_pc' = "returned"
    /\ files' = files \cup {File("03_executive_summary.txt", 0), File("04_metadata.json", 0)}
    /\ UNCHANGED <<sm, sm_documents, semaphore, gather_level, level,
                   current_summaries, tasks, sm_raised>>
    /\ UNCHANGED otherThanSM

\* the awaited gather (or the awaited executive-summary call) raises the
\* first exception of its tasks: process_documents ends with it; the other
\* tasks of the gather are not cancelled by it
AwaitRaises ==
    /\ sm_pc \in {"map", "reduce", "final"}
    /\ \E k \in CurrentTasks : tasks[k].st = "raised"
    /\ sm_pc' = "failed"
    /\ sm_raised' = "ValueError"
    /\ UNCHANGED <<sm, sm_documents, semaphore, gather_level, level,
                   current_summaries, tasks, files>>
    /\ UNCHANGED otherThanSM

NextSM ==
    ProcessDocuments \/ TaskAcquire \/ TaskReturn \/ TaskRaise \/ MapGathered
        \/ ReduceGathered \/ FinalReturned \/ AwaitRaises

IdleSM ==
    /\ sm = [batch_size |-> 0, max_concurrent |-> 0]
    /\ sm_documents = 0
    /\ semaphore = 0
    /\ sm_pc = "idle"
    /\ gather_level = 0
    /\ level = 0
    /\ current_summaries = <<>>
    /\ tasks = <<>>
    /\ files = {}
    /\ sm_raised = "none"

(***************************************************************************)
(* Semantic chunker: SemanticChunker                                       *)
(***************************************************************************)
MaxSemLen == 5  \* longest text handed to SemanticChunker.chunk

SemChars == {"a", ".", " ", "\n"}
SemTexts == UNION {[1..n -> SemChars] : n \in 0..MaxSemLen}

\* [p.strip() for p in text.split(sep) if p.strip()]
StrippedParts(text, sep) ==
    LET parts == StrSplit(text, sep)
        F[i \in 0..Len(parts)] ==
            IF i = 0 THEN <<>>
            ELSE IF Strip(parts[i]) # <<>> THEN Append(F[i - 1], Strip(parts[i]))
                 ELSE F[i - 1]
    IN F[Len(parts)]

\* the paragraphs of chunk(): split at blank lines, or at newlines when that
\* gives nothing
Paragraphs(text) ==
    IF StrippedParts(text, <<"\n", "\n">>) # <<>>
    THEN StrippedParts(text, <<"\n", "\n">>)
    ELSE StrippedParts(text, <<"\n">>)

RECURSIVE SentTokenizeFrom(_, _)
\* nltk's sent_tokenize on the texts of SemTexts: a sentence ends at a "."
\* that whitespace or the end of the text follows; the whitespace between
\* sentences is dropped
SentTokenizeFrom(text, cur) ==
    IF text = <<>> THEN (IF cur = <<>> THEN <<>> ELSE <<cur>>)
    ELSE IF Head(text) = "." /\ (Len(text) = 1 \/ text[2] \in Whitespace)
         THEN <<Append(cur, ".")>> \o SentTokenizeFrom(LStrip(Tail(text)), <<>>)
    ELSE SentTokenizeFrom(Tail(text), Append(cur, Head(text)))

SentTokenize(text) == SentTokenizeFrom(Strip(text), <<>>)

RECURSIVE OverlapTextFrom(_, _, _, _, _)
\* the loop of _get_overlap_text over reversed(sentence_buffer)
OverlapTextFrom(sentence_buffer, i, overlap_text, overlap_tokens, chunk_overlap) ==
    IF i = 0 THEN overlap_text
    ELSE LET sentence == sentence_buffer[i]
             sent_tokens == Len(Encode(sentence))
         IN IF overlap_tokens + sent_tokens <= chunk_overlap
            THEN OverlapTextFrom(sentence_buffer, i - 1,
                                 sentence \o <<" ">> \o overlap_text,
                                 overlap_tokens + sent_tokens, chunk_overlap)
            ELSE overlap_text

\* SemanticChunker._get_overlap_text
GetOverlapText(sentence_buffer, chunk_overlap) ==
    Strip(OverlapTextFrom(sentence_buffer, Len(sentence_buffer), <<>>, 0,
                          chunk_overlap))

\* a chunk that always carries index 0
SemanticCreateChunkZero(text, chunk_idx, num_tokens) ==
    [text |-> text, doc_id |-> DocId, chunk_id |-> <<DocId, "_chunk_", 0>>,
     num_tokens |-> num_tokens, method |-> "semantic"]
\* SemanticChunker._create_chunk
SemanticCreateChunk(text, chunk_idx, num_tokens) ==
    [text |-> text, doc_id |-> DocId, chunk_id |-> <<DocId, "_chunk_", chunk_idx>>,
     num_tokens |-> num_tokens, method |-> "semantic"]

\* the locals of chunk() before the loop
SemanticStart ==
    [chunks |-> <<>>, current_chunk_text |-> <<>>, current_chunk_tokens |-> 0,
     overlap_buffer |-> <<>>]

\* one sentence or one paragraph joins the current chunk: the chunk is closed
\* first when the piece would exceed chunk_size, and the next one starts
\* with the overlap text
AddPiece(st, piece, joiner, sentences, c) ==
    LET piece_tokens == Len(Encode(piece))
        closes == st.current_chunk_tokens + piece_tokens > c.chunk_size
                      /\ st.current_chunk_text # <<>>
        overlap == GetOverlapText(st.overlap_buffer, c.chunk_overlap)
        opened ==
            IF closes
            THEN [chunks |-> Append(st.chunks,
                      SemanticCreateChunk(Strip(st.current_chunk_text),
                                          Len(st.chunks), st.current_chunk_tokens)),
                  current_chunk_text |-> overlap,
                  current_chunk_tokens |-> Len(Encode(overlap)),
                  overlap_buffer |-> <<>>]
            ELSE st
    IN [chunks |-> opened.chunks,
        current_chunk_text |->
            opened.current_chunk_text
                \o (IF opened.current_chunk_text # <<>> THEN joiner ELSE <<>>)
                \o piece,
        current_chunk_tokens |-> opened.current_chunk_tokens + piece_tokens,
        overlap_buffer |-> opened.overlap_buffer \o sentences]

RECURSIVE AddSentences(_, _, _, _)
\* "for sentence in sentences" from sentence i on
AddSentences(st, sentences, i, c) ==
    IF i > Len(sentences) THEN st
    ELSE AddSentences(AddPiece(st, sentences[i], <<" ">>, <<sentences[i]>>, c),
                      sentences, i + 1, c)

RECURSIVE AddParagraphs(_, _, _, _)
\* "for para in paragraphs" from paragraph i on
AddParagraphs(st, paragraphs, i, c) ==
    IF i > Len(paragraphs) THEN st
    ELSE LET para == paragraphs[i]
         IN AddParagraphs(
                IF Len(Encode(para)) > c.chunk_size
                THEN AddSentences(st, SentTokenize(para), 1, c)
                ELSE AddPiece(st, para, <<"\n", "\n">>, SentTokenize(para), c),
                paragraphs, i + 1, c)

\* SemanticChunker.chunk
SemanticChunk(text, c) ==
    LET st == AddParagraphs(SemanticStart, Paragraphs(text), 1, c)
    IN IF Strip(st.current_chunk_text) # <<>>
       THEN Append(st.chunks,
                   SemanticCreateChunk(Strip(st.current_chunk_text),
                                       Len(st.chunks), st.current_chunk_tokens))
       ELSE st.chunks

InitSC ==
    /\ sem_chunker = NoChunker
    /\ sc_text = <<>>
    /\ sc_chunks = <<>>
    /\ sc_pc = "idle"

\* SemanticChunker(chunk_size, chunk_overlap)
SemanticConstruct ==
    /\ sem_chunker = NoChunker
    /\ \E chunk_size \in 1..MaxChunkSize, chunk_overlap \in 0..MaxChunkSize :
          sem_chunker' = NewChunker("SemanticChunker", chunk_size, chunk_overlap)
    /\ UNCHANGED <<sc_text, sc_chunks, sc_pc>>
    /\ UNCHANGED otherThanSC

\* chunker.chunk(text, doc_id)
SemanticChunkCall ==
    /\ sem_chunker # NoChunker
    /\ sc_pc = "idle"
    /\ \E text \in SemTexts :
          /\ sc_text' = text
          /\ sc_chunks' = SemanticChunk(text, sem_chunker)
    /\ sc_pc' = "done"
    /\ UNCHANGED sem_chunker
    /\ UNCHANGED otherThanSC

NextSC == SemanticConstruct \/ SemanticChunkCall

IdleSC == InitSC

\* one chunker of the four is constructed and chunks one text
NextChunkers ==
    \/ (rc = NoChunker /\ sem_chunker = NoChunker /\ NextCK)
    \/ (chunker = NoChunker /\ sem_chunker = NoChunker /\ NextRC)
    \/ (chunker = NoChunker /\ rc = NoChunker /\ NextSC)

(***************************************************************************)
(* Agent loop: run_conversation, run_agent_loop, execute_tool_call         *)
(***************************************************************************)
MaxDeltas == 3  \* tool-call deltas the model streams in answer to one turn

Indexes == {0, 1}            \* tool_call_delta.index
CallIds == {"", "c1", "c2"}  \* tool_call_delta.id, "" when absent
SearchName == <<"s">>        \* the one tool of the registry
OpenBrace == <<"{">>
EmptyObject == <<"{", "}">>

\* tool_call_delta.function: None, or an object with name and arguments
NoFunction == [present |-> FALSE]
FunctionDelta(n, a) == [present |-> TRUE, name |-> n, arguments |-> a]
FunctionDeltas ==
    {NoFunction,
     FunctionDelta(SearchName, <<>>),
     FunctionDelta(<<>>, OpenBrace),
     FunctionDelta(SearchName, EmptyObject)}

\* the deltas of the stream: an id alone, an id with the first function
\* fragment, or later fragments without id
ToolCallDeltas ==
    {d \in [index : Indexes, id : CallIds, function : FunctionDeltas] :
        \/ d.id = "" /\ d.function \notin {NoFunction,
                                               FunctionDelta(SearchName, <<>>)}
        \/ d.id = "c1" /\ d.function = FunctionDelta(SearchName, <<>>)
        \/ d.id = "c2" /\ d.function = NoFunction}

DeltaLists ==
    {<<d>> : d \in ToolCallDeltas} \cup
    {<<d, e>> : d \in ToolCallDeltas, e \in ToolCallDeltas}

NoChoices == [choices |-> FALSE]
Chunk(fr, content, tcs) ==
    [choices |-> TRUE, finish_reason |-> fr, content |-> content,
     tool_calls |-> tcs]
\* the chunks of a streamed response
Chunks ==
    {NoChoices, Chunk("None", <<"h">>, <<>>), Chunk("tool_calls", <<>>, <<>>),
     Chunk("stop", <<>>, <<>>)} \cup
    {Chunk("None", <<>>, tcs) : tcs \in DeltaLists}

\* the entry the accumulator appends for an index it has not seen
EmptyToolCall ==
    [id |-> "", type |-> "function",
     function |-> [name |-> <<>>, arguments |-> <<>>]]

\* while len(collected_tool_calls) <= tool_call_delta.index: append
PadTo(collected, index) ==
    collected \o [k \in 1..(index + 1 - Len(collected)) |-> EmptyToolCall]

\* tc["id"] = tool_call_delta.id with the id concatenated like the fragments
\* instead of replaced
SetIdAppending(tc, d) ==
    IF d.id # "" /\ tc.id # "" THEN [tc EXCEPT !.id = "c1c2"]
    ELSE IF d.id # "" THEN [tc EXCEPT !.id = d.id]
    ELSE tc

\* if tool_call_delta.id: tc["id"] = tool_call_delta.id
SetId(tc, d) == IF d.id # "" THEN [tc EXCEPT !.id = d.id] ELSE tc

\* the function fragments of a delta appended to the entry
AddFragments(tc, d) ==
    IF ~d.function.present THEN tc
    ELSE [tc EXCEPT !.function.name = @ \o d.function.name,
                    !.function.arguments = @ \o d.function.arguments]

\* one tool_call_delta accumulated into collected_tool_calls
Accumulate(collected, d) ==
    LET padded == PadTo(collected, d.index)
    IN [padded EXCEPT ![d.index + 1] = AddFragments(SetId(@, d), d)]

RECURSIVE AccumulateAll(_, _)
\* for tool_call_delta in delta.tool_calls
AccumulateAll(collected, tcs) ==
    IF tcs = <<>> THEN collected
    ELSE AccumulateAll(Accumulate(collected, Head(tcs)), Tail(tcs))

\* json.loads(tool_call.function.arguments) succeeds
JsonLoads(arguments) == arguments = EmptyObject

\* registry.get_tool(function_name) finds a tool
GetTool(name) == name = SearchName

\* execute_tool_call: "raise" when the exception leaves the function,
\* otherwise the string it returns; tool_ok is the outcome of the tool
ExecuteToolCall(tc, tool_ok) ==
    IF ~JsonLoads(tc.function.arguments) THEN "raise"
    ELSE IF ~GetTool(tc.function.name) THEN "not found"
    ELSE IF tool_ok THEN "result"
    ELSE "error"

SystemMessage == [role |-> "system", content |-> <<"p">>]
UserMessage == [role |-> "user", content |-> <<"u">>]
AssistantToolCalls(content, collected) ==
    [role |-> "assistant", content |-> content, tool_calls |-> collected]
ToolMessage(id, result) ==
    [role |-> "tool", tool_call_id |-> id, content |-> result]
AssistantMessage(content) == [role |-> "assistant", content |-> content]

InitAL ==
    /\ messages \in {<<>>, <<SystemMessage>>}
    /\ collected_content = <<>>
    /\ collected_tool_calls = <<>>
    /\ finish_reason = "None"
    /\ consumed = <<>>
    /\ tc_index = 0
    /\ al_pc = "input"
    /\ al_deltas = 0

\* run_conversation: the user message is appended and run_agent_loop called
UserTurn ==
    /\ al_pc = "input"
    /\ messages' = Append(messages, UserMessage)
    /\ UNCHANGED al_deltas
    /\ al_pc' = "create"
    /\ UNCHANGED <<collected_content, collected_tool_calls, finish_reason,
                   consumed, tc_index>>
    /\ UNCHANGED otherThanAL

\* client.chat.completions.create: the stream opens, or the call raises and
\* the except clause leaves the loop
CreateStream ==
    /\ al_pc = "create"
    /\ \E ok \in BOOLEAN :
          IF ok
          THEN /\ collected_content' = <<>>
               /\ collected_tool_calls' = <<>>
               /\ finish_reason' = "None"
               /\ consumed' = <<>>
               /\ al_pc' = "stream"
          ELSE /\ al_pc' = "returned"
               /\ UNCHANGED <<collected_content, collected_tool_calls,
                              finish_reason, consumed>>
    /\ UNCHANGED <<messages, tc_index, al_deltas>>
    /\ UNCHANGED otherThanAL

\* one iteration of "for chunk in stream"
ConsumeChunk ==
    /\ al_pc = "stream"
    /\ \E chunk \in Chunks :
          IF ~chunk.choices
          THEN UNCHANGED <<collected_content, collected_tool_calls,
                           finish_reason, consumed, al_deltas>>
          ELSE /\ al_deltas + Len(chunk.tool_calls) <= MaxDeltas
               /\ chunk.content # <<>> => collected_content = <<>>
               /\ finish_reason' =
                     IF chunk.finish_reason # "None" THEN chunk.finish_reason
                     ELSE finish_reason
               /\ collected_content' = collected_content \o chunk.content
               /\ collected_tool_calls' =
                     AccumulateAll(collected_tool_calls, chunk.tool_calls)
               /\ consumed' = consumed \o chunk.tool_calls
               /\ al_deltas' = al_deltas + Len(chunk.tool_calls)
    /\ UNCHANGED <<messages, tc_index, al_pc>>
    /\ UNCHANGED otherThanAL

\* the stream is exhausted
StreamEnds ==
    /\ al_pc = "stream"
    /\ al_pc' = "streamed"
    /\ UNCHANGED <<messages, collected_content, collected_tool_calls,
                   finish_reason, consumed, tc_index, al_deltas>>
    /\ UNCHANGED otherThanAL

\* reading the stream raises: the except clause leaves the loop
StreamRaises ==
    /\ al_pc = "stream"
    /\ al_pc' = "returned"
    /\ UNCHANGED <<messages, collected_content, collected_tool_calls,
                   finish_reason, consumed, tc_index, al_deltas>>
    /\ UNCHANGED otherThanAL

\* after the stream: the assistant's tool-call message is appended and the
\* tool calls start, or the final message is appended and the loop left
HandleResponse ==
    /\ al_pc = "streamed"
    /\ IF finish_reason = "tool_calls" /\ collected_tool_calls # <<>>
       THEN /\ messages' =
                  Append(messages,
                         AssistantToolCalls(collected_content,
                                            collected_tool_calls))
            /\ tc_index' = 1
            /\ al_pc' = "tools"
       ELSE /\ messages' =
                  IF collected_content # <<>>
                  THEN Append(messages, AssistantMessage(collected_content))
                  ELSE messages
            /\ tc_index' = 0
            /\ al_pc' = "returned"
    /\ UNCHANGED <<collected_content, collected_tool_calls, finish_reason,
                   consumed, al_deltas>>
    /\ UNCHANGED otherThanAL

\* one iteration of "for tc in collected_tool_calls": the tool message is
\* appended, or the exception of execute_tool_call reaches the except clause
ExecuteTool ==
    /\ al_pc = "tools"
    /\ \E tool_ok \in BOOLEAN :
          LET tc == collected_tool_calls[tc_index]
              result == ExecuteToolCall(tc, tool_ok)
          IN IF result = "raise"
             THEN /\ al_pc' = "returned"
                  /\ tc_index' = 0
                  /\ UNCHANGED messages
             ELSE /\ messages' = Append(messages, ToolMessage(tc.id, result))
                  /\ IF tc_index < Len(collected_tool_calls)
                     THEN tc_index' = tc_index + 1 /\ al_pc' = "tools"
                     ELSE tc_index' = 0 /\ al_pc' = "create"
    /\ UNCHANGED <<collected_content, collected_tool_calls, finish_reason,
                   consumed, al_deltas>>
    /\ UNCHANGED otherThanAL

NextAL ==
    \/ UserTurn
    \/ CreateStream
    \/ ConsumeChunk
    \/ StreamEnds
    \/ StreamRaises
    \/ HandleResponse
    \/ ExecuteTool

IdleAL ==
    /\ messages = <<>>
    /\ collected_content = <<>>
    /\ collected_tool_calls = <<>>
    /\ finish_reason = "None"
    /\ consumed = <<>>
    /\ tc_index = 0
    /\ al_pc = "off"
    /\ al_deltas = 0

(***************************************************************************)
(* Shared search state of the agent's tools: initialize                    *)
(***************************************************************************)
MaxInitializeCalls == 2  \* calls of initialize() followed in one process
MaxLoadedDocs == 2       \* documents in the documents directory

EMBEDDING_DIMENSION == 1536
\* where initialize() can be stopped by an exception of a collaborator
InitializeFailures ==
    {"none", "validate", "embed", "create_collection", "add_vectors"}

\* the embeddings, ids and metadata initialize() builds for n documents
DocEmbeddings(n) == VectorArray(n, "u")
DocMetadata(n) == MetadataArg(n, "u")

\* the collection after "if not collection_exists: embed, create_collection,
\* add_vectors" for n documents, and the step that raised
IndexDocuments(coll, n, fail_at, reachable) ==
    IF CollectionExists(coll, reachable) THEN [raised |-> "none", coll |-> coll]
    ELSE IF fail_at = "embed" THEN [raised |-> "embed", coll |-> coll]
    ELSE IF fail_at = "create_collection"
         THEN [raised |-> "create_collection", coll |-> coll]
    ELSE LET created == CreateCollection(coll, EMBEDDING_DIMENSION, reachable)
         IN IF created.raised # "none" THEN created
            ELSE IF fail_at = "add_vectors"
                 THEN [raised |-> "add_vectors", coll |-> created.coll]
            ELSE AddVectors(created.coll, DocEmbeddings(n), IdList(n),
                            DocMetadata(n))


\* initialize(): the globals and the collection after the call
Initialize(st, coll, n, fail_at, reachable) ==
    IF st.initialized
    THEN [st |-> st, coll |-> coll, raised |-> "none"]
    ELSE IF fail_at = "validate"
    THEN [st |-> st, coll |-> coll, raised |-> "RuntimeError"]
    ELSE IF n = 0
    THEN [st |-> [st EXCEPT !.documents = n], coll |-> coll,
          raised |-> "RuntimeError"]
    ELSE LET r == IndexDocuments(coll, n, fail_at, reachable)
         IN IF r.raised # "none"
            THEN [st |-> [st EXCEPT !.documents = n], coll |-> r.coll,
                  raised |-> "RuntimeError"]
            ELSE [st |-> [initialized |-> TRUE, documents |-> n],
                  coll |-> r.coll, raised |-> "none"]

InitIN ==
    /\ search_state = [initialized |-> FALSE, documents |-> 0]
    /\ rag_docs \in InitialCollections
    /\ docs_on_disk \in 0..MaxLoadedDocs
    /\ inCall = [n |-> 0, raised |-> "none", fail_at |-> "none"]

\* a search tool calls initialize()
InitializeCall ==
    /\ inCall.n < MaxInitializeCalls
    /\ \E fail_at \in InitializeFailures, reachable \in BOOLEAN :
          LET r == Initialize(search_state, rag_docs, docs_on_disk, fail_at,
                              reachable)
          IN /\ search_state' = r.st
             /\ rag_docs' = r.coll
             /\ inCall' = [n |-> inCall.n + 1, raised |-> r.raised,
                           fail_at |-> fail_at]
    /\ UNCHANGED docs_on_disk
    /\ UNCHANGED otherThanIN

NextIN == InitializeCall

IdleIN ==
    /\ search_state = [initialized |-> FALSE, documents |-> 0]
    /\ rag_docs = NoCollection
    /\ docs_on_disk = 0
    /\ inCall = [n |-> 0, raised |-> "none", fail_at |-> "none"]

(***************************************************************************)
(* Vector retriever with embedding cache: VectorRetriever.index            *)
(***************************************************************************)
MaxIndexCalls == 3  \* calls of index() followed on one retriever

\* the collection of the retriever
RetrieverCollection == "kb"

\* the document lists handed to index(): none, one, two, and one batch of
\* add_vectors plus one
RetrieverDocLists ==
    {<<>>,
     <<[content |-> <<"a">>]>>,
     <<[content |-> <<"a">>], [content |-> <<"a", "a">>]>>,
     [i \in 1..(batch_size + 1) |-> [content |-> <<"a">>]]}

\* where index() can be stopped by an exception of a collaborator:
\* "add_vectors" before the first upsert, "upsert" before the second
IndexFailures == {"none", "embed", "create_collection", "add_vectors", "upsert"}

\* doc_contents and the metadata list of index()
DocContents(documents) == [i \in DOMAIN documents |-> documents[i].content]
IndexMetadata(documents) ==
    [given |-> TRUE,
     list |-> [i \in DOMAIN documents |-> {<<"content", documents[i].content>>}]]

\* the points add_vectors builds for the documents
DocumentPoints(documents) ==
    BuildPoints(EmbedderEmbed(DocContents(documents)),
                IdList(Len(documents)), IndexMetadata(documents))

\* vector_store.count_vectors(collection_name): the number of points of the
\* collection
CountVectors(coll) == Cardinality(coll.points)

\* what needs_embedding asks the vector store
AskStore(coll, reachable) ==
    [exists |-> CollectionExists(coll, reachable), count |-> CountVectors(coll)]

\* embed, create_collection, add_vectors of index(): the step that raised
\* and the collection left behind
BuildIndex(coll, documents, fail_at, reachable) ==
    IF fail_at \in {"embed", "create_collection"}
    THEN [raised |-> fail_at, coll |-> coll]
    ELSE LET created == CreateCollection(coll, EMBEDDING_DIMENSION, reachable)
         IN IF created.raised # "none" THEN created
            ELSE IF fail_at = "add_vectors"
                 THEN [raised |-> fail_at, coll |-> created.coll]
            ELSE IF fail_at = "upsert" /\ Len(documents) > batch_size
                 THEN [raised |-> fail_at,
                       coll |-> Upsert(created.coll,
                                       PySlice(DocumentPoints(documents), 0,
                                               batch_size))]
            ELSE AddVectors(created.coll,
                            EmbedderEmbed(DocContents(documents)),
                            IdList(Len(documents)), IndexMetadata(documents))

\* cache.mark_embedded(collection_name, documents)
MarkEmbedded(file, documents, writable) ==
    SaveCacheMetadata(file, RetrieverCollection,
                      [content_hash |-> ComputeHash(documents),
                       document_count |-> Len(documents)], writable)

\* an index() that marks the cache before it builds the collection
VectorRetrieverIndexMarkFirst(file, coll, documents, fail_at, reachable, writable) ==
    LET needs == NeedsEmbedding(file, RetrieverCollection, documents,
                                AskStore(coll, reachable))
    IN IF needs.raised # "none"
       THEN [outcome |-> "raised", file |-> file, coll |-> coll]
       ELSE IF ~needs.result
       THEN [outcome |-> "cache_hit", file |-> file, coll |-> coll]
       ELSE LET m == MarkEmbedded(file, documents, writable)
                b == BuildIndex(coll, documents, fail_at, reachable)
            IN IF m.raised # "none"
               THEN [outcome |-> "raised", file |-> m.file, coll |-> coll]
               ELSE IF b.raised # "none"
               THEN [outcome |-> "raised", file |-> m.file, coll |-> b.coll]
               ELSE [outcome |-> "indexed", file |-> m.file, coll |-> b.coll]

\* VectorRetriever.index(documents) with a cache: the outcome, the cache
\* file and the collection after the call
VectorRetrieverIndex(file, coll, documents, fail_at, reachable, writable) ==
    LET needs == NeedsEmbedding(file, RetrieverCollection, documents,
                                AskStore(coll, reachable))
    IN IF needs.raised # "none"
       THEN [outcome |-> "raised", file |-> file, coll |-> coll]
       ELSE IF ~needs.result
       THEN [outcome |-> "cache_hit", file |-> file, coll |-> coll]
       ELSE LET b == BuildIndex(coll, documents, fail_at, reachable)
            IN IF b.raised # "none"
               THEN [outcome |-> "raised", file |-> file, coll |-> b.coll]
               ELSE LET m == MarkEmbedded(file, documents, writable)
                    IN IF m.raised # "none"
                       THEN [outcome |-> "raised", file |-> m.file,
                             coll |-> b.coll]
                       ELSE [outcome |-> "indexed", file |-> m.file,
                             coll |-> b.coll]

NoIndexCall == [documents |-> <<>>, outcome |-> "none", fail_at |-> "none"]

InitVR ==
    /\ vr_file = FileAbsent
    /\ vr_coll = NoCollection
    /\ vr_calls = 0
    /\ vrCall = NoIndexCall
    /\ vrPrev = NoIndexCall

\* retriever.index(documents)
IndexCall ==
    /\ vr_calls < MaxIndexCalls
    /\ \E documents \in RetrieverDocLists, fail_at \in IndexFailures,
          reachable \in BOOLEAN, writable \in BOOLEAN :
          \E r \in {VectorRetrieverIndex(vr_file, vr_coll, documents, fail_at,
                                         reachable, writable)} :
             /\ vr_file' = r.file
             /\ vr_coll' = r.coll
             /\ vrCall' = [documents |-> documents, outcome |-> r.outcome,
                           fail_at |-> fail_at]
    /\ vrPrev' = vrCall
    /\ vr_calls' = vr_calls + 1
    /\ UNCHANGED otherThanVR

NextVR == IndexCall

IdleVR ==
    /\ vr_file = FileAbsent
    /\ vr_coll = NoCollection
    /\ vr_calls = 0
    /\ vrCall = NoIndexCall
    /\ vrPrev = NoIndexCall

(***************************************************************************)
(* Specifications                                                          *)
(***************************************************************************)
InitSpecRRF ==
    InitRRF /\ IdleBM /\ IdleCK /\ IdleRC /\ IdleEC /\ IdleDC /\ IdleVS
        /\ IdleSQ /\ IdleSM /\ IdleSC /\ IdleAL /\ IdleIN /\ IdleVR
InitSpecBM25 ==
    InitBM /\ IdleRRF /\ IdleCK /\ IdleRC /\ IdleEC /\ IdleDC /\ IdleVS
        /\ IdleSQ /\ IdleSM /\ IdleSC /\ IdleAL /\ IdleIN /\ IdleVR
InitSpecChunk ==
    InitCK /\ IdleRRF /\ IdleBM /\ IdleRC /\ IdleEC /\ IdleDC /\ IdleVS
        /\ IdleSQ /\ IdleSM /\ IdleSC /\ IdleAL /\ IdleIN /\ IdleVR
InitSpecRecursive ==
    InitRC /\ IdleRRF /\ IdleBM /\ IdleCK /\ IdleEC /\ IdleDC /\ IdleVS
        /\ IdleSQ /\ IdleSM /\ IdleSC /\ IdleAL /\ IdleIN /\ IdleVR
InitSpecEmbedCache ==
    InitEC /\ IdleRRF /\ IdleBM /\ IdleCK /\ IdleRC /\ IdleDC /\ IdleVS
        /\ IdleSQ /\ IdleSM /\ IdleSC /\ IdleAL /\ IdleIN /\ IdleVR
InitSpecDocCache ==
    InitDC /\ IdleRRF /\ IdleBM /\ IdleCK /\ IdleRC /\ IdleEC /\ IdleVS
        /\ IdleSQ /\ IdleSM /\ IdleSC /\ IdleAL /\ IdleIN /\ IdleVR
InitSpecStore ==
    InitVS /\ IdleRRF /\ IdleBM /\ IdleCK /\ IdleRC /\ IdleEC /\ IdleDC
        /\ IdleSQ /\ IdleSM /\ IdleSC /\ IdleAL /\ IdleIN /\ IdleVR
InitSpecSearch ==
    InitSQ /\ IdleRRF /\ IdleBM /\ IdleCK /\ IdleRC /\ IdleEC /\ IdleDC
        /\ IdleVS /\ IdleSM /\ IdleSC /\ IdleAL /\ IdleIN /\ IdleVR
InitSpecSummarize ==
    InitSM /\ IdleRRF /\ IdleBM /\ IdleCK /\ IdleRC /\ IdleEC /\ IdleDC
        /\ IdleVS /\ IdleSQ /\ IdleSC /\ IdleAL /\ IdleIN /\ IdleVR
InitSpecSemantic ==
    InitSC /\ IdleRRF /\ IdleBM /\ IdleCK /\ IdleRC /\ IdleEC /\ IdleDC
        /\ IdleVS /\ IdleSQ /\ IdleSM /\ IdleAL /\ IdleIN /\ IdleVR
InitSpecAgentLoop ==
    InitAL /\ IdleRRF /\ IdleBM /\ IdleCK /\ IdleRC /\ IdleEC /\ IdleDC
        /\ IdleVS /\ IdleSQ /\ IdleSM /\ IdleSC /\ IdleIN /\ IdleVR
InitSpecInitialize ==
    InitIN /\ IdleRRF /\ IdleBM /\ IdleCK /\ IdleRC /\ IdleEC /\ IdleDC
        /\ IdleVS /\ IdleSQ /\ IdleSM /\ IdleSC /\ IdleAL /\ IdleVR
InitSpecRetriever ==
    InitVR /\ IdleRRF /\ IdleBM /\ IdleCK /\ IdleRC /\ IdleEC /\ IdleDC
        /\ IdleVS /\ IdleSQ /\ IdleSM /\ IdleSC /\ IdleAL /\ IdleIN

SpecRRF == InitSpecRRF /\ [][NextRRF]_vars
SpecBM25 == InitSpecBM25 /\ [][NextBM]_vars
SpecChunk == InitSpecChunk /\ [][NextCK]_vars
SpecRecursive == InitSpecRecursive /\ [][NextRC]_vars
SpecEmbedCache == InitSpecEmbedCache /\ [][NextEC]_vars
SpecDocCache == InitSpecDocCache /\ [][NextDC]_vars
SpecStore == InitSpecStore /\ [][NextVS]_vars
SpecSearch == InitSpecSearch /\ [][NextSQ]_vars
SpecSummarize == InitSpecSummarize /\ [][NextSM]_vars
SpecSummarizeFair ==
    InitSpecSummarize /\ [][NextSM]_vars /\ WF_vars(NextSM)
SpecSemantic == InitSpecSemantic /\ [][NextSC]_vars
SpecChunkers == InitSpecSemantic /\ [][NextChunkers]_vars
SpecAgentLoop == InitSpecAgentLoop /\ [][NextAL]_vars
SpecInitialize == InitSpecInitialize /\ [][NextIN]_vars
SpecRetriever == InitSpecRetriever /\ [][NextVR]_vars



(***************************************************************************)
(* Properties of the rank fusion                                           *)
(***************************************************************************)
\* 1-based rank of id in a ranked list, 0 when the list does not hold it
RankIn(results, id) ==
    IF \E i \in DOMAIN results : results[i][1] = id
    THEN CHOOSE i \in DOMAIN results : results[i][1] = id
    ELSE 0

\* w / (k + r) over the common denominator; a missing id contributes 0
Contribution(w, kk, r) == IF r = 0 THEN 0 ELSE w * (RankDen(kk) \div (kk + r))

\* alpha/(k + r_v) + (1 - alpha)/(k + r_b)
ExpectedScore(v, b, a, kk, id) ==
    Contribution(a, kk, RankIn(v, id)) + Contribution(AlphaDen - a, kk, RankIn(b, id))

NonIncreasing(out) ==
    \A i \in 1..(Len(out) - 1) : out[i][2] >= out[i + 1][2]

\* the lists HybridRetriever.search hands to the fusion
HybridV == Take(vector_results, hyb_k * 2)
HybridB == Take(bm25_results, hyb_k * 2)

\* C1: every id gets the fused score alpha/(k + r_v) + (1 - alpha)/(k + r_b)
\* of its ranks in the two lists (0 from a list that does not hold it), in
\* reciprocal_rank_fusion and in HybridRetriever._reciprocal_rank_fusion;
\* the expected score is a function of the ids' ranks only, never of the raw
\* scores the lists carry.
C1_FusedScoreByRank ==
    /\ "rrf" \in rrfDone =>
          \A id \in Ids :
             DictGet(fused, id) =
                ExpectedScore(vector_results, bm25_results, alpha, rrf_k, id)
    /\ "hybrid" \in rrfDone =>
          \A id \in Ids :
             DictGet(hybridFused, id) =
                ExpectedScore(HybridV, HybridB, alpha, RRF_K, id)

\* an id ranked differently by the two lists, whose raw scores disagree with
\* the ranks, has been fused with a weight strictly between 0 and 1
C1_Witness ==
    /\ {"rrf", "hybrid"} \subseteq rrfDone
    /\ alpha \notin {0, AlphaDen}
    /\ hyb_k >= 1
    /\ Len(vector_results) = 2
    /\ vector_results[1][2] < vector_results[2][2]
    /\ \E id \in Ids : /\ RankIn(vector_results, id) = 1
                       /\ RankIn(bm25_results, id) = 2
                       /\ DictGet(fused, id) > 0

\* C2: with alpha = 1.0 the returned ids are exactly the vector list's ids in
\* rank order, with alpha = 0.0 exactly the BM25 list's, for any two lists.
C2_BoundaryOrder ==
    "rrf" \in rrfDone =>
       /\ alpha = AlphaDen => IdsOf(fused) = IdsOf(vector_results)
       /\ alpha = 0 => IdsOf(fused) = IdsOf(bm25_results)

\* out holds exactly the ids with a nonzero fused score, once each, no id
\* with score 0, sorted by non-increasing score
FusedWellFormed(out, v, b, a, kk) ==
    /\ NoDupIds(out)
    /\ \A id \in Ids : ExpectedScore(v, b, a, kk, id) # 0 => DictHas(out, id)
    /\ \A i \in DOMAIN out : out[i][2] # 0
    /\ NonIncreasing(out)

\* C3: the list returned by reciprocal_rank_fusion, and the list
\* HybridRetriever.search sorts before truncation, holds each id with a
\* nonzero fused score exactly once, no id whose fused score is 0, and is
\* sorted by non-increasing fused score.
C3_NonzeroSortedOnce ==
    /\ "rrf" \in rrfDone =>
          FusedWellFormed(fused, vector_results, bm25_results, alpha, rrf_k)
    /\ "hybrid" \in rrfDone =>
          FusedWellFormed(hybridFused, HybridV, HybridB, alpha, RRF_K)

CalledInst ==
    IF bmCall.obj = "BM25Search"
    THEN [documents |-> bs.documents, built |-> bs.built, builtFrom |-> bs.builtFrom]
    ELSE [documents |-> br.documents, built |-> br.built, builtFrom |-> br.builtFrom]

DocIdsOf(documents) == {documents[i].id : i \in DOMAIN documents}

Min(x, y) == IF x < y THEN x ELSE y

\* position of a document id in a document list
PosIn(documents, id) == CHOOSE i \in DOMAIN documents : documents[i].id = id

\* C5: after index(D), every search returns exactly min(top_k, |D|) results,
\* each the id of a document of D, none twice, in non-increasing score order.
C5_SearchResultShape ==
    (bmCall.op = "search" /\ CalledInst.built) =>
       /\ bmCall.outcome = "ok"
       /\ Len(bmCall.ret) = Min(bmCall.top_k, Len(CalledInst.builtFrom))
       /\ \A i \in DOMAIN bmCall.ret :
             bmCall.ret[i][1] \in DocIdsOf(CalledInst.builtFrom)
       /\ NoDupIds(bmCall.ret)
       /\ NonIncreasing(bmCall.ret)

\* C6: documents with equal score are returned in index-time document order;
\* a query without tokens returns the first top_k documents in index order,
\* all with score 0.
C6_TiesInDocumentOrder ==
    (bmCall.op = "search" /\ bmCall.outcome = "ok"
        /\ CalledInst.documents = CalledInst.builtFrom) =>
       /\ \A i, j \in DOMAIN bmCall.ret :
             (i < j /\ bmCall.ret[i][2] = bmCall.ret[j][2]) =>
                PosIn(CalledInst.documents, bmCall.ret[i][1])
                   < PosIn(CalledInst.documents, bmCall.ret[j][1])
       /\ bmCall.query = <<>> =>
             /\ IdsOf(bmCall.ret) =
                   [i \in 1..Min(bmCall.top_k, Len(CalledInst.documents)) |->
                       CalledInst.documents[i].id]
             /\ \A i \in DOMAIN bmCall.ret : bmCall.ret[i][2] = 0

\* C7: a search on an instance on which no index() call has completed
\* successfully fails with the "not indexed" ValueError and returns nothing;
\* once an index() call has completed successfully every search succeeds.
C7_SearchNeedsIndex ==
    bmCall.op = "search" =>
       IF CalledInst.built
       THEN bmCall.outcome = "ok"
       ELSE bmCall.outcome = "ValueError" /\ bmCall.ret = <<>>

\* a search was refused on a BM25Search whose only index() call had failed
\* inside BM25Okapi, after the documents were tokenised
C7_Witness ==
    /\ bmCall.obj = "BM25Search" /\ bmCall.op = "search"
    /\ bmCall.outcome = "ValueError"
    /\ Len(bs.tokenized_docs) > 0 /\ ~bs.built

\* C8: BM25Search.index on an empty document set fails before any partial
\* work: documents, tokenized_docs, bm25 and _indexed are what they were.
C8_EmptyIndexChangesNothing ==
    [][(bmCall'.obj = "BM25Search" /\ bmCall'.op = "index"
            /\ bmCall'.outcome = "ValueError")
          => /\ bs'.documents = bs.documents
             /\ bs'.tokenized_docs = bs.tokenized_docs
             /\ bs'.bm25 = bs.bm25
             /\ bs'.indexed = bs.indexed]_vars

(***************************************************************************)
(* Properties of the fixed-size chunker                                    *)
(***************************************************************************)
ValidConfig(c) == 0 <= c.chunk_overlap /\ c.chunk_overlap < c.chunk_size

\* C9: no FixedChunker or ContextualChunker instance exists with
\* chunk_overlap >= chunk_size or chunk_overlap < 0: construction rejects it.
C9_NoInvalidChunker ==
    chunker # NoChunker => ValidConfig(chunker)

RECURSIVE ConcatDeoverlapped(_, _, _)
\* tokens of chunks i..Len(cs), each minus its first overlap_tokens tokens
ConcatDeoverlapped(toks, cs, i) ==
    IF i > Len(cs) THEN <<>>
    ELSE SubSeq(toks, cs[i].start_token + cs[i].overlap_tokens + 1, cs[i].end_token)
            \o ConcatDeoverlapped(toks, cs, i + 1)

\* C10: for a FixedChunker with 0 <= overlap < chunk_size, chunk i covers
\* tokens [i*step, min(i*step + chunk_size, n)) with step = chunk_size -
\* overlap, every chunk but the last has exactly chunk_size tokens, and
\* chunk 0 followed by every later chunk minus its first overlap tokens is
\* the original token sequence.
C10_FixedRoundTrip ==
    (ck_pc = "done" /\ chunker.cls = "FixedChunker" /\ ValidConfig(chunker)) =>
       LET n == Len(tokens)
           size == chunker.chunk_size
           step == chunker.chunk_size - chunker.chunk_overlap
       IN /\ \A i \in DOMAIN chunks :
                /\ chunks[i].start_token = (i - 1) * step
                /\ chunks[i].end_token = Min((i - 1) * step + size, n)
                /\ chunks[i].num_tokens = chunks[i].end_token - chunks[i].start_token
                /\ chunks[i].text =
                      Decode(SubSeq(tokens, chunks[i].start_token + 1,
                                    chunks[i].end_token))
          /\ \A i \in 1..(Len(chunks) - 1) : chunks[i].num_tokens = size
          /\ ConcatDeoverlapped(tokens, chunks, 1) = tokens
          /\ Decode(ConcatDeoverlapped(tokens, chunks, 1)) = ck_text

\* a text of more tokens than two windows was chunked with a real overlap,
\* and its last chunk is short
C10_Witness ==
    /\ ck_pc = "done" /\ chunker.cls = "FixedChunker" /\ ValidConfig(chunker)
    /\ chunker.chunk_overlap >= 1
    /\ Len(chunks) >= 3
    /\ chunks[Len(chunks)].num_tokens < chunker.chunk_size
    /\ \E i \in DOMAIN tokens : tokens[i] = "t_ab"

(***************************************************************************)
(* Properties of the recursive chunker                                     *)
(***************************************************************************)
\* token counts of the parts of a chunk, added up
RECURSIVE SumTokens(_)
SumTokens(parts) ==
    IF parts = <<>> THEN 0 ELSE Len(Encode(Head(parts))) + SumTokens(Tail(parts))

\* C11: with 0 <= chunk_overlap < chunk_size, no chunk of RecursiveChunker.chunk
\* has more than chunk_size tokens, except by at most one single character
\* (one token of the tokenizer modelled here);
\* num_tokens is the sum of the token counts of the carried overlap and of
\* the packed segments.
C11_RecursiveChunkSize ==
    ValidConfig(rc) =>
       \A i \in DOMAIN rc_chunks :
          /\ rc_chunks[i].num_tokens = SumTokens(rc_parts[i])
          /\ rc_chunks[i].num_tokens <= rc.chunk_size + 1

\* s is a tail of t
IsTail(s, t) ==
    Len(s) <= Len(t) /\ SubSeq(t, Len(t) - Len(s) + 1, Len(t)) = s

\* C12: when RecursiveChunker.chunk closes a chunk, the text carried into
\* the next chunk is a tail of the closed chunk of at most chunk_overlap
\* tokens, for every chunk_overlap >= 0; with chunk_overlap = 0 it is empty.
C12_OverlapIsBoundedTail ==
    \A i \in DOMAIN rc_carried :
       /\ IsTail(rc_carried[i], rc_chunks[i].text)
       /\ Len(Encode(rc_carried[i])) <= rc.chunk_overlap
       /\ (rc.chunk_overlap = 0 => rc_carried[i] = <<>>)

(***************************************************************************)
(* Properties of the contextual chunker                                    *)
(***************************************************************************)
ContextualDone == ck_pc = "done" /\ chunker.cls = "ContextualChunker"

\* C13: whatever completion calls fail, ContextualChunker.chunk returns, in
\* order, one chunk per chunk of the base fixed-size chunking; a chunk whose
\* call failed has the context 'This chunk is from the document.', a chunk
\* whose call returned a text keeps that text (stripped) as its context.
C13_EnrichmentSurvivesFailures ==
    ContextualDone =>
       /\ Len(enriched_chunks)
             = Len(FixedChunkerChunk(ck_text, chunker.chunk_size, chunker.chunk_overlap))
       /\ \A i \in DOMAIN enriched_chunks :
             /\ enriched_chunks[i].original_text = chunks[i].text
             /\ enriched_chunks[i].chunk_id = <<DocId, "_chunk_", i - 1>>
             /\ completions[i].outcome.kind \in {"raise", "none"}
                   => enriched_chunks[i].context = FallbackContext
             /\ completions[i].outcome.kind = "text"
                   => enriched_chunks[i].context = Strip(completions[i].outcome.content)

\* three chunks came back although the first call raised, the second
\* returned no content and the third returned a text
C13_Witness ==
    /\ ContextualDone
    /\ Len(enriched_chunks) = 3
    /\ completions[1].outcome.kind = "raise"
    /\ completions[2].outcome.kind = "none"
    /\ completions[3].outcome.kind = "text"
    /\ enriched_chunks[3].context = <<"c">>

\* C14: ContextualChunker.chunk issues exactly one completion call per base
\* chunk, and every returned chunk has text = context + "\n\n" +
\* original_text, with original_text, start_token, end_token and
\* overlap_tokens those of the chunk FixedChunker.chunk makes at the same
\* position for the same text, chunk_size and chunk_overlap.
C14_ContextualRefinesFixed ==
    ContextualDone =>
       LET fixed == FixedChunkerChunk(ck_text, chunker.chunk_size, chunker.chunk_overlap)
       IN /\ Len(completions) = Len(chunks)
          /\ \A i \in DOMAIN completions :
                /\ completions[i].chunk = chunks[i].text
                /\ completions[i].document = ck_text
          /\ Len(enriched_chunks) = Len(fixed)
          /\ \A i \in DOMAIN enriched_chunks :
                /\ enriched_chunks[i].text
                      = enriched_chunks[i].context \o <<"\n", "\n">>
                           \o enriched_chunks[i].original_text
                /\ enriched_chunks[i].original_text = fixed[i].text
                /\ enriched_chunks[i].start_token = fixed[i].start_token
                /\ enriched_chunks[i].end_token = fixed[i].end_token
                /\ enriched_chunks[i].overlap_tokens = fixed[i].overlap_tokens

\* a text with a merged pair among its tokens was chunked with an overlap
\* into more than one chunk and enriched
C14_Witness ==
    /\ ContextualDone
    /\ chunker.chunk_overlap >= 1
    /\ Len(enriched_chunks) >= 2
    /\ \E i \in DOMAIN tokens : tokens[i] = "t_ab"

(***************************************************************************)
(* Properties of the embedding caches                                      *)
(***************************************************************************)
\* how often text was sent to the embedder in the calls i..Len(calls)
RECURSIVE CountIn(_, _)
CountIn(text, batch) ==
    IF batch = <<>> THEN 0
    ELSE (IF Head(batch) = text THEN 1 ELSE 0) + CountIn(text, Tail(batch))
RECURSIVE TimesSent(_, _)
TimesSent(text, calls) ==
    IF calls = <<>> THEN 0
    ELSE CountIn(text, Head(calls)) + TimesSent(text, Tail(calls))

\* C15: over any sequence of _get_embeddings / embed_chunks requests on one
\* cache, each chunk text is sent to the embedder at most once, also when it
\* occurs twice in the same batch.
C15_TextEmbeddedOnce ==
    \A text \in EmbTexts : TimesSent(text, embed_calls) <= 1

\* C17: constructing ChunkEvaluator or EmbeddingManager on a cache file that
\* is corrupt or unreadable does not fail, and the instance starts with an
\* empty cache.
C17_BadCacheFileLoadsEmpty ==
    (ecCall.op = "new" /\ ecCall.loaded \in BadFileStates) =>
       /\ ecCall.outcome = "ok"
       /\ ec.live
       /\ ec.cache = {}

(***************************************************************************)
(* Properties of the corpus-level cache                                    *)
(***************************************************************************)
\* the contents of a document list, document by document
ContentsOf(documents) == [i \in 1..Len(documents) |-> documents[i].content]

\* C16: needs_embedding(collection, D, store) returns False only if the
\* collection exists, holds exactly |D| vectors and the documents of D have,
\* document by document, the contents of the documents last passed to
\* mark_embedded for that collection.
C16_SkipOnlyWhenUnchanged ==
    (dcCall.op = "needs_embedding" /\ dcCall.raised = "none" /\ ~dcCall.result) =>
       /\ dcCall.store.exists
       /\ dcCall.store.count = Len(dcCall.documents)
       /\ dc_marked[dcCall.collection_name].marked
       /\ ContentsOf(dc_marked[dcCall.collection_name].documents)
             = ContentsOf(dcCall.documents)

(***************************************************************************)
(* Properties of the vector store                                          *)
(***************************************************************************)
\* C18: on every collection the store can hold, add_vectors fails with a
\* validation error, the collection holding what it held, whenever
\* len(vectors) # len(ids) or a metadata list of another length than ids is
\* supplied; when it completes, every supplied id is stored with the vector
\* and the metadata of its own position, also across the 100-point batches.
C18_AddVectorsValidatesAndStores ==
    \A collection_name \in StoreColls, n_vectors \in ListLens, n_ids \in ListLens,
       tag \in Tags :
       \A metadata \in MetadataArgs(tag) :
       LET coll == collections[collection_name]
           r == AddVectors(coll, VectorArray(n_vectors, tag), IdList(n_ids), metadata)
       IN /\ (n_vectors # n_ids
                 \/ (metadata.given /\ Len(metadata.list) # n_ids))
               => (r.raised = "ValueError" /\ r.coll = coll)
          /\ r.raised = "none" =>
               \A i \in 1..n_ids :
                  \E p \in r.coll.points :
                     /\ p.id = i
                     /\ p.vector = ToList(VectorArray(n_vectors, tag)[i])
                     /\ p.payload = IF metadata.given THEN metadata.list[i]
                                    ELSE {}

\* C19: when create_collection(name, dim) returns, the collection exists and
\* holds no vectors, whatever it held before; every other collection is as
\* it was; and a second call in a row leaves the state of the first.
C19_CreateIsIdempotentReset ==
    [][(vsCall'.op = "create_collection" /\ vsCall'.raised = "none") =>
          LET name == vsCall'.collection_name
          IN /\ collections'[name].exists
             /\ collections'[name].points = {}
             /\ \A other \in StoreColls \ {name} :
                   collections'[other] = collections[other]
             /\ (vsCall.op = "create_collection" /\ vsCall.raised = "none"
                   /\ vsCall.collection_name = name
                   /\ vsCall.vector_dim = vsCall'.vector_dim)
                  => collections' = collections]_vars

\* create_collection returned for a collection that held points, while the
\* other collection holds points
C19_Witness ==
    /\ vsCall.op = "create_collection" /\ vsCall.raised = "none"
    /\ vsCall.points_before > 0
    /\ \E other \in StoreColls \ {vsCall.collection_name} :
          collections[other].points # {}

(***************************************************************************)
(* Properties of the semantic search tool                                  *)
(***************************************************************************)
\* the indexed documents a file_path matches: the file itself, or every file
\* under the folder
MatchedBy(file_path) ==
    {d \in sq_documents :
        IF EndsWith(file_path.path, <<".txt">>) THEN d = file_path.path
        ELSE StartsWith(d, IF EndsWith(file_path.path, <<"/">>) THEN file_path.path
                           ELSE file_path.path \o <<"/">>)}

\* C20: a search_documents call with a file_path that m indexed documents
\* match returns min(top_k, m) results, all of them matching documents, best
\* first, and no matching document left out scores higher than one returned,
\* however the other documents score.
C20_FilteredSearchRanksMatching ==
    (sqCall.op = "search_documents" /\ Truthy(sqCall.file_path) /\ ~response.error) =>
        LET matching == MatchedBy(sqCall.file_path)
            results == response.results
            returned == {results[i].document_id : i \in DOMAIN results}
        IN /\ Len(results) = Min(ClampTopK(sqCall.top_k), Cardinality(matching))
           /\ returned \subseteq matching
           /\ \A i \in 1..(Len(results) - 1) :
                 similarity[results[i].document_id]
                     >= similarity[results[i + 1].document_id]
           /\ \A d \in matching \ returned : \A r \in returned :
                 similarity[d] <= similarity[r]

(***************************************************************************)
(* Properties of the hierarchical summarizer                               *)
(***************************************************************************)
\* the completion calls in flight
InFlight == {k \in DOMAIN tasks : tasks[k].st = "calling"}

\* C21: at every moment of process_documents at most max_concurrent
\* completion calls are in flight, map, reduce and executive-summary calls
\* counted together.
C21_BoundedConcurrency == Cardinality(InFlight) <= sm.max_concurrent

\* max_concurrent calls are in flight while another coroutine waits for the
\* semaphore
C21_Witness ==
    /\ sm.max_concurrent > 0
    /\ Cardinality(InFlight) = sm.max_concurrent
    /\ \E k \in DOMAIN tasks : tasks[k].st = "waiting"

\* C22: a call of a level has started only if every call of the levels
\* below it has returned: the map calls before the first reduce level, each
\* reduce level before the next, the last reduce level before the
\* executive-summary call.
C22_LevelsAreBarriers ==
    \A k \in DOMAIN tasks, j \in DOMAIN tasks :
       (tasks[k].st # "waiting" /\ k[2] > j[2]) => tasks[j].st = "done"

\* the executive-summary call has started after two reduce levels
C22_Witness ==
    /\ \E k \in DOMAIN tasks : k[1] = "final" /\ tasks[k].st # "waiting"
    /\ \E k \in DOMAIN tasks : k[1] = "reduce" /\ k[2] = 2

\* C23: once a summarize_document call of the map phase has failed, no
\* reduce call and no executive-summary call exists, process_documents does
\* not return a result, and no output file is written.
C23_MapFailureIsFatal ==
    (\E k \in DOMAIN tasks : k[1] = "map" /\ tasks[k].st = "raised") =>
        /\ \A k \in DOMAIN tasks : k[1] = "map"
        /\ sm_pc # "returned"
        /\ files = {}

\* process_documents has failed on a failed map call while another map call
\* had returned its summary
C23_Witness ==
    /\ sm_pc = "failed"
    /\ \E k \in DOMAIN tasks : k[1] = "map" /\ tasks[k].st = "raised"
    /\ \E k \in DOMAIN tasks : k[1] = "map" /\ tasks[k].st = "done"

\* C26: for a non-empty document list and batch_size >= 1 (and a semaphore
\* that lets calls in), process_documents leaves the reduce loop: it reaches
\* the executive-summary call, with exactly one summary, or fails on a call.
C26_ReduceTerminates ==
    /\ [](sm_pc = "final" => Len(current_summaries) = 1)
    /\ (sm.batch_size >= 1 /\ sm.max_concurrent >= 1 /\ sm_documents >= 1)
          => <>(sm_pc \in {"final", "returned", "failed"})

(***************************************************************************)
(* Termination of the fixed-size window                                    *)
(***************************************************************************)
\* C25: on each iteration of the window loop of FixedChunker.chunk and of
\* ContextualChunker._create_base_chunks the window start strictly advances
\* and the new chunk holds a token past the end of the chunk before it, for
\* every chunker that can be constructed.
C25_WindowAdvances ==
    [][Len(chunks') > Len(chunks) =>
          /\ start' > start
          /\ Len(chunks) > 0 =>
                chunks'[Len(chunks')].end_token > chunks[Len(chunks)].end_token]_vars

(***************************************************************************)
(* Chunk ids of the four chunkers                                          *)
(***************************************************************************)
\* the chunks of a list carry the ids {doc_id}_chunk_0, _1, ... in list order
Numbered(chunk_list) ==
    \A i \in 1..Len(chunk_list) :
       chunk_list[i].chunk_id = <<DocId, "_chunk_", i - 1>>

\* C24: within one chunk() run of the fixed, recursive, semantic or
\* contextual chunker the chunks carry chunk_id = "{doc_id}_chunk_{n}" with
\* n = 0, 1, 2, ... in list order: unique within the document and without
\* gaps.
C24_ChunkIdsConsecutive ==
    /\ chunker.cls = "FixedChunker" => Numbered(chunks)
    /\ Numbered(enriched_chunks)
    /\ Numbered(rc_chunks)
    /\ Numbered(sc_chunks)

\* the semantic chunker has returned three chunks
C24_Witness == sc_pc = "done" /\ Len(sc_chunks) >= 3

(***************************************************************************)
(* Properties of the agent loop                                            *)
(***************************************************************************)
\* the deltas of a stream that carry index i, in arrival order
DeltasOf(deltas, i) == SelectSeq(deltas, LAMBDA d : d.index = i)

\* the last non-empty id among deltas, "" when there is none
LastId(deltas) ==
    LET F[k \in 0..Len(deltas)] ==
            IF k = 0 THEN ""
            ELSE IF deltas[k].id # "" THEN deltas[k].id ELSE F[k - 1]
    IN F[Len(deltas)]

\* the name fragments of deltas, concatenated
JoinedNames(deltas) ==
    LET F[k \in 0..Len(deltas)] ==
            IF k = 0 THEN <<>>
            ELSE IF deltas[k].function.present
                 THEN F[k - 1] \o deltas[k].function.name
                 ELSE F[k - 1]
    IN F[Len(deltas)]

\* the argument fragments of deltas, concatenated
JoinedArguments(deltas) ==
    LET F[k \in 0..Len(deltas)] ==
            IF k = 0 THEN <<>>
            ELSE IF deltas[k].function.present
                 THEN F[k - 1] \o deltas[k].function.arguments
                 ELSE F[k - 1]
    IN F[Len(deltas)]

\* C29: when the stream has ended, collected_tool_calls has one entry for
\* every index from 0 to the largest index seen, and the entry of index i
\* holds the last non-empty id, the concatenated name fragments and the
\* concatenated argument fragments of the deltas of index i, in arrival
\* order.
C29_AccumulatorCollectsByIndex ==
    al_pc = "streamed" =>
        /\ DOMAIN collected_tool_calls =
              {i + 1 : i \in {j \in Indexes :
                                \E k \in DOMAIN consumed :
                                    consumed[k].index >= j}}
        /\ \A i \in Indexes :
              i + 1 \in DOMAIN collected_tool_calls =>
                 LET mine == DeltasOf(consumed, i)
                     tc == collected_tool_calls[i + 1]
                 IN /\ tc.id = LastId(mine)
                    /\ tc.function.name = JoinedNames(mine)
                    /\ tc.function.arguments = JoinedArguments(mine)

\* a stream has ended whose deltas of index 0 and 1 interleave, the id of
\* index 1 arriving twice
C29_Witness ==
    /\ al_pc = "streamed"
    /\ Len(consumed) = 3
    /\ consumed[1].index = 1 /\ consumed[1].id = "c1"
    /\ consumed[2].index = 0
    /\ consumed[3].index = 1 /\ consumed[3].id = "c2"

\* an assistant message with tool_calls at position i is followed by one
\* tool message per call, in order, with the matching tool_call_id
Answered(msgs, i) ==
    LET calls == msgs[i].tool_calls
    IN /\ i + Len(calls) <= Len(msgs)
       /\ \A k \in DOMAIN calls :
             /\ msgs[i + k].role = "tool"
             /\ msgs[i + k].tool_call_id = calls[k].id
       /\ i + Len(calls) < Len(msgs) => msgs[i + Len(calls) + 1].role # "tool"

WellFormed(msgs) ==
    \A i \in DOMAIN msgs :
        "tool_calls" \in DOMAIN msgs[i] => Answered(msgs, i)

\* C27: whenever run_agent_loop has returned, every assistant message with
\* tool_calls in the history is followed, before any other message, by
\* exactly one tool message per tool call, in order and with the matching
\* tool_call_id.
C27_HistoryWellFormed == al_pc = "returned" => WellFormed(messages)

(***************************************************************************)
(* Properties of the shared search state                                   *)
(***************************************************************************)
\* the collection holds, for each of the n loaded documents, the vector and
\* the metadata that initialize() builds for it
HoldsEveryDocument(coll, n) ==
    /\ coll.exists
    /\ \A i \in 1..n :
          PointStruct(i, DocEmbeddings(n)[i], DocMetadata(n).list[i])
             \in coll.points

\* C28: whenever the search state is marked initialized, the collection
\* holds one vector with metadata for every loaded document, also when an
\* earlier initialize() failed part-way.
C28_InitializedMeansIndexed ==
    search_state.initialized =>
        HoldsEveryDocument(rag_docs, search_state.documents)

(***************************************************************************)
(* Properties of the vector retriever                                      *)
(***************************************************************************)
\* the collection holds the points of the documents and no others
HoldsExactly(coll, documents) ==
    /\ coll.exists
    /\ LET points == DocumentPoints(documents)
       IN coll.points = {points[i] : i \in DOMAIN points}

\* C30: an index() call changes the cache file only when it has completed
\* create_collection and add_vectors for its documents; a call that raises
\* leaves the cache file as it was; and when the call after one that raised
\* is made with the same documents and reports a cache hit, the collection
\* holds as many vectors as there are documents, so it is neither empty nor
\* partially filled.
C30_MarkedOnlyAfterIndexed ==
    [][vr_calls' = vr_calls + 1 =>
          /\ vr_file' # vr_file =>
                /\ vrCall'.outcome = "indexed"
                /\ HoldsExactly(vr_coll', vrCall'.documents)
          /\ vrCall'.outcome = "raised" => vr_file' = vr_file
          /\ (/\ vrCall.outcome = "raised"
              /\ vrCall'.documents = vrCall.documents
              /\ vrCall'.outcome = "cache_hit") =>
                /\ vr_coll'.exists
                /\ CountVectors(vr_coll') = Len(vrCall'.documents)
                /\ vrCall'.documents # <<>> => vr_coll'.points # {}]_vars

\* index() raised in the second upsert of add_vectors, leaving the
\* collection partially filled and the cache unmarked, and the next index()
\* with the same documents embedded and inserted them again
C30_Witness ==
    /\ vrPrev.outcome = "raised"
    /\ vrPrev.fail_at = "upsert"
    /\ Len(vrPrev.documents) > batch_size
    /\ vrCall.documents = vrPrev.documents
    /\ vrCall.outcome = "indexed"
    /\ HoldsExactly(vr_coll, vrCall.documents)
    /\ vr_file # FileAbsent

====
